---- MODULE Spec2Model ----
(***************************************************************************)
(* The request pipeline of the MCP server: the authentication layer        *)
(* (auth/middleware.rs, auth/error.rs, auth/types.rs), the dispatcher and  *)
(* the error classifier (lib.rs), the tool registry and the argument       *)
(* validator (tools/mod.rs) and the clock tool (tools/get_time.rs).        *)
(*                                                                         *)
(* A Rust string is a sequence of one-character strings, so that           *)
(* strip_prefix, contains, len and format! are computed and not assumed.   *)
(* A byte of a header value outside visible ASCII is the element "0xFF".   *)
(***************************************************************************)
EXTENDS Integers, Sequences, FiniteSets, TLC

VARIABLES
    credentials,       \* CredentialsStore shared by AuthLayer/AuthMiddleware
    tool_registry,     \* AppState.tool_registry: name -> tool behind the closure
    tool_definitions,  \* AppState.tool_definitions: Vec<ToolDefinition>
    pc,                \* per request: where the request is in the pipeline
    req,               \* per request: method, path, headers and body as received
    extensions,        \* per request: the AuthenticatedUser extension, if inserted
    payload,           \* per request: the McpRequest extracted by Json<McpRequest>
    calls,             \* per request: the calls made to the tool closure
    returned,          \* per request: what the awaited tool future returned
    log,               \* per request: the pipeline steps taken, in order
    resp,              \* per request: the response, once produced
    error_msg,         \* classifier run: the failure message under classification
    classified,        \* classifier run: the McpResponse built from error_msg
    config,            \* startup: the environment and the credentials file
    loaded,            \* startup: what load_credentials returned, once called
    tool_entries,      \* startup: the inventory of ToolEntry, in iteration order
    panicked,          \* startup: the name initialize_all_tools panicked on, if any
    given_schema,      \* validator run: the schema passed to the validator
    given_args,        \* validator run: the args passed to validate_tool_args
    given_name,        \* validator run: the name passed to validate_value
    given_value,       \* validator run: the value passed to validate_value
    validation         \* validator run: the Result returned

vars == <<credentials, tool_registry, tool_definitions, pc, req, extensions,
          payload, calls, returned, log, resp, error_msg, classified,
          config, loaded, tool_entries, panicked, given_schema, given_args,
          given_name, given_value, validation>>

(***************************************************************************)
(* String literals of the source                                           *)
(***************************************************************************)
\* auth/middleware.rs: the literal prefix stripped from the header value
STR_BearerPrefix == <<"B", "e", "a", "r", "e", "r", " ">>

\* auth/error.rs: the fixed message of each AuthError kind
MSG_MissingToken ==
    <<"M", "i", "s", "s", "i", "n", "g", " ", "A", "u", "t", "h", "o", "r",
      "i", "z", "a", "t", "i", "o", "n", " ", "h", "e", "a", "d", "e", "r">>
MSG_InvalidFormat ==
    <<"I", "n", "v", "a", "l", "i", "d", " ", "A", "u", "t", "h", "o", "r",
      "i", "z", "a", "t", "i", "o", "n", " ", "h", "e", "a", "d", "e", "r",
      " ", "f", "o", "r", "m", "a", "t", ".", " ", "E", "x", "p", "e", "c",
      "t", "e", "d", ":", " ", "B", "e", "a", "r", "e", "r", " ", "<", "t",
      "o", "k", "e", "n", ">">>
MSG_InvalidToken ==
    <<"I", "n", "v", "a", "l", "i", "d", " ", "o", "r", " ", "e", "x", "p",
      "i", "r", "e", "d", " ", "A", "P", "I", " ", "k", "e", "y">>

\* lib.rs: field names and literals of the response envelope
STR_jsonrpc == <<"j", "s", "o", "n", "r", "p", "c">>
STR_2_0 == <<"2", ".", "0">>
STR_result == <<"r", "e", "s", "u", "l", "t">>
STR_error == <<"e", "r", "r", "o", "r">>
STR_code == <<"c", "o", "d", "e">>
STR_message == <<"m", "e", "s", "s", "a", "g", "e">>
STR_data == <<"d", "a", "t", "a">>
STR_tools == <<"t", "o", "o", "l", "s">>
STR_name == <<"n", "a", "m", "e">>
STR_description == <<"d", "e", "s", "c", "r", "i", "p", "t", "i", "o", "n">>
STR_parameters == <<"p", "a", "r", "a", "m", "e", "t", "e", "r", "s">>
STR_available_tools ==
    <<"a", "v", "a", "i", "l", "a", "b", "l", "e", "_", "t", "o", "o", "l",
      "s">>
STR_InvalidParameters ==
    <<"I", "n", "v", "a", "l", "i", "d", " ", "p", "a", "r", "a", "m", "e",
      "t", "e", "r", "s">>
STR_ToolExecutionError ==
    <<"T", "o", "o", "l", " ", "e", "x", "e", "c", "u", "t", "i", "o", "n",
      " ", "e", "r", "r", "o", "r">>
STR_ColonSpace == <<":", " ">>
STR_ToolQuote == <<"T", "o", "o", "l", " ", "'">>
STR_QuoteNotFound == <<"'", " ", "n", "o", "t", " ", "f", "o", "u", "n", "d">>
STR_OK == <<"O", "K">>

\* lib.rs: the keywords of is_param_validation_error, in array order
KW_parameter == <<"p", "a", "r", "a", "m", "e", "t", "e", "r">>
KW_required == <<"r", "e", "q", "u", "i", "r", "e", "d">>
KW_Unexpected == <<"U", "n", "e", "x", "p", "e", "c", "t", "e", "d">>
KW_Missing == <<"M", "i", "s", "s", "i", "n", "g">>
KW_must_be == <<"m", "u", "s", "t", " ", "b", "e">>
KW_exceeds_maximum ==
    <<"e", "x", "c", "e", "e", "d", "s", " ", "m", "a", "x", "i", "m", "u",
      "m">>
KW_at_least == <<"a", "t", " ", "l", "e", "a", "s", "t">>
KW_characters_long ==
    <<"c", "h", "a", "r", "a", "c", "t", "e", "r", "s", " ", "l", "o", "n",
      "g">>
KW_type == <<"t", "y", "p", "e">>

\* tools/mod.rs: schema keywords, type names and message pieces of the validator
STR_type == <<"t", "y", "p", "e">>
STR_properties == <<"p", "r", "o", "p", "e", "r", "t", "i", "e", "s">>
STR_required == <<"r", "e", "q", "u", "i", "r", "e", "d">>
STR_additionalProperties ==
    <<"a", "d", "d", "i", "t", "i", "o", "n", "a", "l", "P", "r", "o", "p",
      "e", "r", "t", "i", "e", "s">>
STR_minLength == <<"m", "i", "n", "L", "e", "n", "g", "t", "h">>
STR_maxLength == <<"m", "a", "x", "L", "e", "n", "g", "t", "h">>
STR_pattern == <<"p", "a", "t", "t", "e", "r", "n">>
STR_minimum == <<"m", "i", "n", "i", "m", "u", "m">>
STR_maximum == <<"m", "a", "x", "i", "m", "u", "m">>
STR_maxItems == <<"m", "a", "x", "I", "t", "e", "m", "s">>
STR_string == <<"s", "t", "r", "i", "n", "g">>
STR_integer == <<"i", "n", "t", "e", "g", "e", "r">>
STR_number == <<"n", "u", "m", "b", "e", "r">>
STR_boolean == <<"b", "o", "o", "l", "e", "a", "n">>
STR_array == <<"a", "r", "r", "a", "y">>
STR_object == <<"o", "b", "j", "e", "c", "t">>
STR_null == <<"n", "u", "l", "l">>
STR_CommaSpace == <<",", " ">>
STR_Quote == <<"'">>
MSG_MissingRequiredArguments ==
    <<"M", "i", "s", "s", "i", "n", "g", " ", "r", "e", "q", "u", "i", "r",
      "e", "d", " ", "a", "r", "g", "u", "m", "e", "n", "t", "s", ":", " ">>
MSG_ArgumentsMustBeAnObject ==
    <<"A", "r", "g", "u", "m", "e", "n", "t", "s", " ", "m", "u", "s", "t",
      " ", "b", "e", " ", "a", "n", " ", "o", "b", "j", "e", "c", "t">>
MSG_UnexpectedParameter ==
    <<"U", "n", "e", "x", "p", "e", "c", "t", "e", "d", " ", "p", "a", "r",
      "a", "m", "e", "t", "e", "r", ":", " ", "'">>
MSG_MissingRequiredParameter ==
    <<"M", "i", "s", "s", "i", "n", "g", " ", "r", "e", "q", "u", "i", "r",
      "e", "d", " ", "p", "a", "r", "a", "m", "e", "t", "e", "r", ":", " ",
      "'">>
MSG_Parameter == <<"P", "a", "r", "a", "m", "e", "t", "e", "r", " ", "'">>
MSG_MustBeOfType ==
    <<"'", " ", "m", "u", "s", "t", " ", "b", "e", " ", "o", "f", " ", "t",
      "y", "p", "e", " ", "'">>
MSG_Got == <<"'", ",", " ", "g", "o", "t", " ", "'">>
MSG_MustBeAtLeast ==
    <<"'", " ", "m", "u", "s", "t", " ", "b", "e", " ", "a", "t", " ", "l",
      "e", "a", "s", "t", " ">>
MSG_CharactersLong ==
    <<" ", "c", "h", "a", "r", "a", "c", "t", "e", "r", "s", " ", "l", "o",
      "n", "g">>
MSG_ExceedsMaximumLength ==
    <<"'", " ", "e", "x", "c", "e", "e", "d", "s", " ", "m", "a", "x", "i",
      "m", "u", "m", " ", "l", "e", "n", "g", "t", "h", " ", "o", "f", " ">>
MSG_DoesNotMatch ==
    <<"'", " ", "d", "o", "e", "s", " ", "n", "o", "t", " ", "m", "a", "t",
      "c", "h", " ", "r", "e", "q", "u", "i", "r", "e", "d", " ", "p", "a",
      "t", "t", "e", "r", "n">>
MSG_MustBeAtMost ==
    <<"'", " ", "m", "u", "s", "t", " ", "b", "e", " ", "a", "t", " ", "m",
      "o", "s", "t", " ">>
MSG_ExceedsMaximumArrayLength ==
    <<"'", " ", "e", "x", "c", "e", "e", "d", "s", " ", "m", "a", "x", "i",
      "m", "u", "m", " ", "a", "r", "r", "a", "y", " ", "l", "e", "n", "g",
      "t", "h", " ", "o", "f", " ">>

\* tools/get_time.rs: name, description and result key of GetTimeTool
STR_get_current_time ==
    <<"g", "e", "t", "_", "c", "u", "r", "r", "e", "n", "t", "_", "t", "i",
      "m", "e">>
STR_GetTimeDescription ==
    <<"R", "e", "t", "u", "r", "n", "s", " ", "t", "h", "e", " ", "c", "u",
      "r", "r", "e", "n", "t", " ", "s", "e", "r", "v", "e", "r", " ", "t",
      "i", "m", "e", " ", "a", "s", " ", "a", "n", " ", "I", "S", "O", " ",
      "8", "6", "0", "1", " ", "s", "t", "r", "i", "n", "g", ".">>
STR_current_time ==
    <<"c", "u", "r", "r", "e", "n", "t", "_", "t", "i", "m", "e">>

\* tests/common/mod.rs: MockTool's schema and result literals
STR_test_param == <<"t", "e", "s", "t", "_", "p", "a", "r", "a", "m">>
STR_TestParameter ==
    <<"T", "e", "s", "t", " ", "p", "a", "r", "a", "m", "e", "t", "e", "r">>
STR_mock_result == <<"m", "o", "c", "k", "_", "r", "e", "s", "u", "l", "t">>

STR_authorization ==
    <<"a", "u", "t", "h", "o", "r", "i", "z", "a", "t", "i", "o", "n">>
STR_k1 == <<"k", "1">>
STR_k2 == <<"k", "2">>
STR_k3 == <<"k", "3">>
STR_alice == <<"a", "l", "i", "c", "e">>
STR_bob == <<"b", "o", "b">>
STR_eve == <<"e", "v", "e">>
STR_postgres_url ==
    <<"p", "o", "s", "t", "g", "r", "e", "s", "_", "u", "r", "l">>
STR_PostgresUrlValue ==
    <<"p", "o", "s", "t", "g", "r", "e", "s", "q", "l", ":", "/", "/", "l",
      "o", "c", "a", "l", "h", "o", "s", "t", "/", "t", "e", "s", "t">>
STR_test_tool == <<"t", "e", "s", "t", "_", "t", "o", "o", "l">>
STR_MockDescription ==
    <<"A", " ", "t", "e", "s", "t", " ", "t", "o", "o", "l">>
STR_any_tool == <<"a", "n", "y", "_", "t", "o", "o", "l">>
STR_AnyDescription == <<"A", "n", "y", " ", "t", "o", "o", "l">>
STR_bogus == <<"b", "o", "g", "u", "s">>
STR_Get_Current_Time ==
    <<"G", "e", "t", "_", "C", "u", "r", "r", "e", "n", "t", "_", "T", "i",
      "m", "e">>
STR_tz == <<"t", "z">>
STR_UTC == <<"U", "T", "C">>
STR_n == <<"n">>
STR_Basic == <<"B", "a", "s", "i", "c", " ">>
STR_bearerLower == <<"b", "e", "a", "r", "e", "r", " ">>
STR_BearerNoSpace == <<"B", "e", "a", "r", "e", "r">>
STR_T1 ==
    <<"2", "0", "2", "6", "-", "0", "1", "-", "0", "1", "T", "0", "0", ":",
      "0", "0", ":", "0", "0", "+", "0", "0", ":", "0", "0">>
STR_T2 ==
    <<"2", "0", "2", "6", "-", "0", "1", "-", "0", "1", "T", "0", "0", ":",
      "0", "0", ":", "0", "1", "+", "0", "0", ":", "0", "0">>
MSG_Empty == <<>>
MSG_DatabaseConnectionFailed ==
    <<"D", "a", "t", "a", "b", "a", "s", "e", " ", "c", "o", "n", "n", "e",
      "c", "t", "i", "o", "n", " ", "f", "a", "i", "l", "e", "d">>
MSG_WrongTypeForField ==
    <<"W", "r", "o", "n", "g", " ", "t", "y", "p", "e", " ", "f", "o", "r",
      " ", "f", "i", "e", "l", "d">>
MSG_PARAMETERIsInvalid ==
    <<"P", "A", "R", "A", "M", "E", "T", "E", "R", " ", "i", "s", " ", "i",
      "n", "v", "a", "l", "i", "d">>
\* pieces of failure messages: the keywords in other letter case and cut in two
FR_Parameter == <<"P", "a", "r", "a", "m", "e", "t", "e", "r">>
FR_REQUIRED == <<"R", "E", "Q", "U", "I", "R", "E", "D">>
FR_unexpected == <<"u", "n", "e", "x", "p", "e", "c", "t", "e", "d">>
FR_missing == <<"m", "i", "s", "s", "i", "n", "g">>
FR_MustBe == <<"M", "u", "s", "t", " ", "B", "e">>
FR_must == <<"m", "u", "s", "t">>
FR_be == <<" ", "b", "e">>
FR_typ == <<"t", "y", "p">>
FR_e == <<"e">>
FR_at == <<"a", "t">>
FR_least == <<" ", "l", "e", "a", "s", "t">>
FR_exceeds == <<"e", "x", "c", "e", "e", "d", "s">>
FR_maximum == <<" ", "m", "a", "x", "i", "m", "u", "m">>
FR_characters == <<"c", "h", "a", "r", "a", "c", "t", "e", "r", "s">>
FR_long == <<" ", "l", "o", "n", "g">>
FR_Space == <<" ">>
FR_failed == <<"f", "a", "i", "l", "e", "d">>

(***************************************************************************)
(* Option, Result and the str methods the code uses                        *)
(***************************************************************************)
None == [some |-> FALSE]

Some(v) == [some |-> TRUE, v |-> v]

Ok(v) == [ok |-> TRUE, v |-> v]

Err(e) == [ok |-> FALSE, e |-> e]

\* str::starts_with
starts_with(s, p) ==
    /\ Len(p) <= Len(s)
    /\ SubSeq(s, 1, Len(p)) = p

\* str::strip_prefix: the rest of s after p, or None when s does not start with p
strip_prefix(s, p) ==
    IF starts_with(s, p) THEN Some(SubSeq(s, Len(p) + 1, Len(s))) ELSE None

\* str::contains: kw occurs in s at some byte offset
contains(s, kw) ==
    \E i \in 0..(Len(s) - Len(kw)) : SubSeq(s, i + 1, i + Len(kw)) = kw

\* HeaderValue::to_str: fails when any byte is not visible ASCII
OpaqueBytes == {"0xFF"}

to_str(bytes) ==
    IF \E i \in 1..Len(bytes) : bytes[i] \in OpaqueBytes THEN None ELSE Some(bytes)

(***************************************************************************)
(* serde_json::Value                                                       *)
(***************************************************************************)
JNull == [t |-> "null"]

JBool(b) == [t |-> "bool", b |-> b]

\* Value::Number holding an i64/u64
JInt(n) == [t |-> "int", n |-> n]

\* Value::Number holding an f64; h is the value in halves (h = 5 is 2.5)
JFloat(h) == [t |-> "float", h |-> h]

\* Value::Number holding the u64 2^53 + d, an integer that an f64 holds only
\* when d is even
JBig(d) == [t |-> "big", d |-> d]

JStr(s) == [t |-> "string", s |-> s]

JArr(a) == [t |-> "array", a |-> a]

\* o is a function from keys to values
JObj(o) == [t |-> "object", o |-> o]

EmptyMap == <<>>

(***************************************************************************)
(* auth/types.rs                                                           *)
(***************************************************************************)
UserCredentials(username, api_key, external_keys) ==
    [username |-> username, api_key |-> api_key, external_keys |-> external_keys]

AuthenticatedUser(user_credentials) == [credentials |-> user_credentials]

\* mutant of validate_api_key: the key is matched by prefix, not exactly
validate_api_key_ByPrefix(api_key, store) ==
    IF \E k \in DOMAIN store : starts_with(k, api_key)
    THEN Some(store[CHOOSE k \in DOMAIN store : starts_with(k, api_key)])
    ELSE None

\* store.get(api_key).cloned()
validate_api_key(api_key, store) ==
    IF api_key \in DOMAIN store THEN Some(store[api_key]) ELSE None

(***************************************************************************)
(* lib.rs: error codes, McpResponse, ErrorDetails and their serialization  *)
(***************************************************************************)
ERROR_AUTH == -32001

ERROR_INVALID_PARAMS == -32002

ERROR_TOOL_EXECUTION == -32003

ERROR_INVALID_REQUEST == -32600

ERROR_METHOD_NOT_FOUND == -32601

ErrorDetails(code, message, data) ==
    [code |-> code, message |-> message, data |-> data]

McpResponse_success(result) ==
    [result |-> Some(result), error |-> None, jsonrpc |-> STR_2_0]

McpResponse_error(code, message, data) ==
    [result |-> None,
     error |-> Some(ErrorDetails(code, message, data)),
     jsonrpc |-> STR_2_0]

\* mutant of SkipIfNone: without the attribute a None field is written as null
SkipIfNone_WritesNull(key, opt) == key :> (IF opt.some THEN opt.v ELSE JNull)

\* #[serde(skip_serializing_if = "Option::is_none")]: the field is left out
SkipIfNone(key, opt) == IF opt.some THEN key :> opt.v ELSE EmptyMap

\* #[derive(Serialize)] for ErrorDetails
SerializeErrorDetails(e) ==
    JObj((STR_code :> JInt(e.code))
         @@ (STR_message :> JStr(e.message))
         @@ SkipIfNone(STR_data, e.data))

\* #[derive(Serialize)] for McpResponse
SerializeMcpResponse(r) ==
    JObj(SkipIfNone(STR_result, r.result)
         @@ SkipIfNone(STR_error,
                       IF r.error.some
                       THEN Some(SerializeErrorDetails(r.error.v))
                       ELSE None)
         @@ (STR_jsonrpc :> JStr(r.jsonrpc)))

\* #[derive(Serialize)] for ToolDefinition
SerializeToolDefinition(d) ==
    JObj((STR_name :> JStr(d.name))
         @@ (STR_description :> JStr(d.description))
         @@ (STR_parameters :> d.parameters))

\* An HTTP response: a status and a JSON or a text body
JsonResponse(status, json) == [status |-> status, kind |-> "json", json |-> json]

TextResponse(status, text) == [status |-> status, kind |-> "text", text |-> text]

StatusOK == 200

StatusUnauthorized == 401

(***************************************************************************)
(* auth/error.rs and auth/middleware.rs                                    *)
(***************************************************************************)
\* mutant of AuthErrorMessage: the messages of two kinds are exchanged
AuthErrorMessage_Exchanged(auth_error) ==
    CASE auth_error = "MissingToken" -> MSG_MissingToken
      [] auth_error = "InvalidFormat" -> MSG_InvalidToken
      [] auth_error = "InvalidToken" -> MSG_InvalidFormat

\* the message of each AuthError kind
AuthErrorMessage(auth_error) ==
    CASE auth_error = "MissingToken" -> MSG_MissingToken
      [] auth_error = "InvalidFormat" -> MSG_InvalidFormat
      [] auth_error = "InvalidToken" -> MSG_InvalidToken

\* impl IntoResponse for AuthError
AuthError_into_response(auth_error) ==
    LET error_details == ErrorDetails(ERROR_AUTH, AuthErrorMessage(auth_error), None)
    IN  JsonResponse(StatusUnauthorized,
                     JObj((STR_jsonrpc :> JStr(STR_2_0))
                          @@ (STR_error :> SerializeErrorDetails(error_details))))

\* authenticate, with the store lookups it makes: the header is read as text,
\* the prefix is stripped, and only then is the store consulted
authenticate(headers, store) ==
    LET auth_header ==
            IF STR_authorization \in DOMAIN headers
            THEN to_str(headers[STR_authorization])
            ELSE None
        token == strip_prefix(auth_header.v, STR_BearerPrefix)
    IN  IF ~auth_header.some
        THEN [result |-> Err("MissingToken"), lookups |-> <<>>]
        ELSE IF ~token.some
        THEN [result |-> Err("InvalidFormat"), lookups |-> <<>>]
        ELSE LET found == validate_api_key(token.v, store)
             IN  [result |-> IF found.some THEN Ok(found.v) ELSE Err("InvalidToken"),
                  lookups |-> <<token.v>>]


(***************************************************************************)
(* auth/loader.rs                                                          *)
(***************************************************************************)
STR_DefaultCredentialsPath ==
    <<"c", "o", "n", "f", "i", "g", "/", "c", "r", "e", "d", "e", "n", "t",
      "i", "a", "l", "s", ".", "t", "o", "m", "l">>

STR_OtherCredentialsPath ==
    <<"/", "t", "m", "p", "/", "c", ".", "t", "o", "m", "l">>

MSG_FailedToRead ==
    <<"F", "a", "i", "l", "e", "d", " ", "t", "o", " ", "r", "e", "a", "d",
      " ", "c", "r", "e", "d", "e", "n", "t", "i", "a", "l", "s", " ", "f",
      "i", "l", "e", " ", "a", "t", ":", " ">>

MSG_FailedToParse ==
    <<"F", "a", "i", "l", "e", "d", " ", "t", "o", " ", "p", "a", "r", "s",
      "e", " ", "c", "r", "e", "d", "e", "n", "t", "i", "a", "l", "s", " ",
      "f", "i", "l", "e", " ", "a", "t", ":", " ">>

MSG_NoUsersFound ==
    <<"N", "o", " ", "u", "s", "e", "r", "s", " ", "f", "o", "u", "n", "d",
      " ", "i", "n", " ", "c", "r", "e", "d", "e", "n", "t", "i", "a", "l",
      "s", " ", "f", "i", "l", "e", " ", "a", "t", ":", " ">>

MSG_DuplicateApiKey ==
    <<"D", "u", "p", "l", "i", "c", "a", "t", "e", " ", "A", "P", "I", " ",
      "k", "e", "y", " ", "f", "o", "u", "n", "d", " ", "f", "o", "r", " ",
      "u", "s", "e", "r", " ", "'">>

\* get_credentials_path: MCP_CREDENTIALS_PATH, or the default
get_credentials_path(env) == IF env.some THEN env.v ELSE STR_DefaultCredentialsPath

RECURSIVE insert_users_Overwriting(_, _, _)
\* mutant of insert_users: a key already in the store is overwritten
insert_users_Overwriting(store, users, order) ==
    IF order = <<>> THEN Ok(store)
    ELSE LET username == Head(order)
             user_config == users[username]
             user == UserCredentials(username, user_config.api_key,
                                     user_config.external_keys)
         IN  insert_users_Overwriting((user_config.api_key :> user) @@ store, users,
                                      Tail(order))

RECURSIVE insert_users(_, _, _)
\* load_credentials: the loop over config.users, order being the order in
\* which the map yields the user names
insert_users(store, users, order) ==
    IF order = <<>> THEN Ok(store)
    ELSE LET username == Head(order)
             user_config == users[username]
             user == UserCredentials(username, user_config.api_key,
                                     user_config.external_keys)
         IN  IF user_config.api_key \in DOMAIN store
             THEN Err(MSG_DuplicateApiKey \o username \o <<"'", ":", " ">>
                      \o user_config.api_key)
             ELSE insert_users((user_config.api_key :> user) @@ store, users,
                               Tail(order))

\* load_credentials; file is what reading and parsing the file at the path
\* gives
load_credentials(env, file, order) ==
    LET path == get_credentials_path(env)
    IN  IF file.kind = "unreadable" THEN Err(MSG_FailedToRead \o path)
        ELSE IF file.kind = "unparsable" THEN Err(MSG_FailedToParse \o path)
        ELSE IF DOMAIN file.users = {} THEN Err(MSG_NoUsersFound \o path)
        ELSE insert_users(EmptyMap, file.users, order)

(***************************************************************************)
(* tools/mod.rs: validate_tool_args and validate_value                     *)
(***************************************************************************)
\* Value::get(key): the member of an object, None for any other value
Get(value, key) ==
    IF value.t = "object" /\ key \in DOMAIN value.o THEN Some(value.o[key]) ELSE None

as_object(value) == IF value.t = "object" THEN Some(value.o) ELSE None

as_array(value) == IF value.t = "array" THEN Some(value.a) ELSE None

as_str(value) == IF value.t = "string" THEN Some(value.s) ELSE None

as_bool(value) == IF value.t = "bool" THEN Some(value.b) ELSE None

\* Value::as_u64: only a number held as a non-negative integer (the length
\* bounds it is applied to are never drawn above 2^53)
as_u64(value) ==
    CASE value.t = "int" -> IF value.n >= 0 THEN Some(value.n) ELSE None
      [] value.t # "int" /\ value.t # "big" -> None

\* an f64: the number k * 2^53 + h / 2
F64(k, h) == [k |-> k, h |-> h]

\* u64 as f64 for 2^53 + d: between 2^53 and 2^54 an f64 holds the even
\* integers only, and a tie goes to the neighbour with the even mantissa
round_ties_even(d) ==
    IF d % 2 = 0 THEN d
    ELSE IF (d - 1) % 4 = 0 THEN d - 1
    ELSE d + 1

\* Value::as_f64: every number, converted to an f64
as_f64(value) ==
    CASE value.t = "int" -> Some(F64(0, 2 * value.n))
      [] value.t = "float" -> Some(F64(0, value.h))
      [] value.t = "big" -> Some(F64(1, 2 * round_ties_even(value.d)))
      [] OTHER -> None

\* mutant of f64_lt: a <= b
f64_lt_OrEqual(a, b) == a.k < b.k \/ (a.k = b.k /\ a.h <= b.h)

\* a < b on f64
f64_lt(a, b) == a.k < b.k \/ (a.k = b.k /\ a.h < b.h)

\* opt.and_then(f) for the accessors above
AndThen(opt, f(_)) == IF opt.some THEN f(opt.v) ELSE None

Digit(d) == <<"0", "1", "2", "3", "4", "5", "6", "7", "8", "9">>[d + 1]

RECURSIVE fmt_u64(_)
\* Display of an unsigned integer
fmt_u64(n) == IF n < 10 THEN <<Digit(n)>> ELSE fmt_u64(n \div 10) \o <<Digit(n % 10)>>

\* the digits of 2^53 = 9007199254740992 before the last two
FR_Two53Head == <<"9", "0", "0", "7", "1", "9", "9", "2", "5", "4", "7", "4", "0", "9">>

\* Display of an f64: 5 is "5", 2.5 is "2.5", -0.5 is "-0.5", and 2^53 + 2 is
\* "9007199254740994"
fmt_f64(x) ==
    LET a == IF x.h < 0 THEN -x.h ELSE x.h
    IN  IF x.k = 1
        THEN FR_Two53Head \o fmt_u64(92 + x.h \div 2)
        ELSE (IF x.h < 0 THEN <<"-">> ELSE <<>>)
             \o fmt_u64(a \div 2)
             \o (IF a % 2 = 1 THEN <<".", "5">> ELSE <<>>)

\* characters that take two bytes in UTF-8
TwoByteChars == {"U+00E9"}

\* mutant of str_len: the length in characters
str_len_Chars(s) == Len(s)

RECURSIVE str_len(_)
\* str::len: the length in bytes
str_len(s) ==
    IF s = <<>> THEN 0
    ELSE (IF Head(s) \in TwoByteChars THEN 2 ELSE 1) + str_len(Tail(s))

RECURSIVE trim_start_matches(_, _)
trim_start_matches(s, c) ==
    IF s # <<>> /\ Head(s) = c THEN trim_start_matches(Tail(s), c) ELSE s

RECURSIVE trim_end_matches(_, _)
trim_end_matches(s, c) ==
    IF s # <<>> /\ s[Len(s)] = c
    THEN trim_end_matches(SubSeq(s, 1, Len(s) - 1), c)
    ELSE s

RECURSIVE join_Rest(_)
\* the strings one after the other
join_Rest(strs) == IF strs = <<>> THEN <<>> ELSE Head(strs) \o join_Rest(Tail(strs))

\* mutant of join: the separator is left out
join_NoSeparator(strs, sep) == join_Rest(strs)

RECURSIVE join(_, _)
\* [&str]::join(sep)
join(strs, sep) ==
    IF strs = <<>> THEN <<>>
    ELSE IF Len(strs) = 1 THEN strs[1]
    ELSE strs[1] \o sep \o join(Tail(strs), sep)

RECURSIVE filter_map_as_str(_)
\* arr.iter().filter_map(|v| v.as_str()).collect()
filter_map_as_str(arr) ==
    IF arr = <<>> THEN <<>>
    ELSE (IF as_str(Head(arr)).some THEN <<as_str(Head(arr)).v>> ELSE <<>>)
         \o filter_map_as_str(Tail(arr))

\* the name validate_value gives to the kind of a value
actual_type_of(value) ==
    CASE value.t = "string" -> STR_string
      [] value.t = "int" -> STR_integer
      [] value.t = "big" -> STR_integer
      [] value.t = "float" -> STR_number
      [] value.t = "bool" -> STR_boolean
      [] value.t = "array" -> STR_array
      [] value.t = "object" -> STR_object
      [] value.t = "null" -> STR_null

\* mutant of check_type: an integer is not taken for a number
check_type_Strict(name, value, schema) ==
    LET expected == AndThen(Get(schema, STR_type), as_str)
        actual_type == actual_type_of(value)
    IN  IF expected.some /\ expected.v # actual_type
        THEN Err(MSG_Parameter \o name \o MSG_MustBeOfType \o expected.v
                 \o MSG_Got \o actual_type \o STR_Quote)
        ELSE Ok(<<>>)

\* validate_value: the type check
check_type(name, value, schema) ==
    LET expected == AndThen(Get(schema, STR_type), as_str)
        actual_type == actual_type_of(value)
        type_matches ==
            \/ expected.v = actual_type
            \/ (expected.v = STR_number /\ actual_type = STR_integer)
    IN  IF expected.some /\ ~type_matches
        THEN Err(MSG_Parameter \o name \o MSG_MustBeOfType \o expected.v
                 \o MSG_Got \o actual_type \o STR_Quote)
        ELSE Ok(<<>>)

\* validate_value: minLength, maxLength and pattern of a string value
check_string(name, value, schema) ==
    LET s == as_str(value)
        min_len == AndThen(Get(schema, STR_minLength), as_u64)
        max_len == AndThen(Get(schema, STR_maxLength), as_u64)
        pattern == AndThen(Get(schema, STR_pattern), as_str)
        prefix == trim_end_matches(trim_start_matches(pattern.v, "^"), "*")
    IN  IF ~s.some THEN Ok(<<>>)
        ELSE IF min_len.some /\ str_len(s.v) < min_len.v
        THEN Err(MSG_Parameter \o name \o MSG_MustBeAtLeast \o fmt_u64(min_len.v)
                 \o MSG_CharactersLong)
        ELSE IF max_len.some /\ str_len(s.v) > max_len.v
        THEN Err(MSG_Parameter \o name \o MSG_ExceedsMaximumLength
                 \o fmt_u64(max_len.v))
        ELSE IF /\ pattern.some
                /\ starts_with(pattern.v, <<"^">>)
                /\ pattern.v[Len(pattern.v)] = "*"
                /\ ~starts_with(s.v, prefix)
        THEN Err(MSG_Parameter \o name \o MSG_DoesNotMatch)
        ELSE Ok(<<>>)

\* mutant of check_number: the bounds apply only where the sub-schema
\* declares a numeric type
check_number_DeclaredOnly(name, value, schema) ==
    LET n == as_f64(value)
        min == AndThen(Get(schema, STR_minimum), as_f64)
        max == AndThen(Get(schema, STR_maximum), as_f64)
        expected == AndThen(Get(schema, STR_type), as_str)
    IN  IF ~n.some \/ ~expected.some \/ expected.v \notin {STR_number, STR_integer}
        THEN Ok(<<>>)
        ELSE IF min.some /\ f64_lt(n.v, min.v)
        THEN Err(MSG_Parameter \o name \o MSG_MustBeAtLeast \o fmt_f64(min.v))
        ELSE IF max.some /\ f64_lt(max.v, n.v)
        THEN Err(MSG_Parameter \o name \o MSG_MustBeAtMost \o fmt_f64(max.v))
        ELSE Ok(<<>>)

\* validate_value: minimum and maximum of a numeric value
check_number(name, value, schema) ==
    LET n == as_f64(value)
        min == AndThen(Get(schema, STR_minimum), as_f64)
        max == AndThen(Get(schema, STR_maximum), as_f64)
    IN  IF ~n.some THEN Ok(<<>>)
        ELSE IF min.some /\ f64_lt(n.v, min.v)
        THEN Err(MSG_Parameter \o name \o MSG_MustBeAtLeast \o fmt_f64(min.v))
        ELSE IF max.some /\ f64_lt(max.v, n.v)
        THEN Err(MSG_Parameter \o name \o MSG_MustBeAtMost \o fmt_f64(max.v))
        ELSE Ok(<<>>)

\* validate_value: maxItems of an array value
check_array(name, value, schema) ==
    LET arr == as_array(value)
        max_items == AndThen(Get(schema, STR_maxItems), as_u64)
    IN  IF arr.some /\ max_items.some /\ Len(arr.v) > max_items.v
        THEN Err(MSG_Parameter \o name \o MSG_ExceedsMaximumArrayLength
                 \o fmt_u64(max_items.v))
        ELSE Ok(<<>>)

\* mutant of validate_value: the string checks run before the type check
validate_value_StringFirst(name, value, schema) ==
    IF ~check_string(name, value, schema).ok THEN check_string(name, value, schema)
    ELSE IF ~check_type(name, value, schema).ok THEN check_type(name, value, schema)
    ELSE IF ~check_number(name, value, schema).ok THEN check_number(name, value, schema)
    ELSE check_array(name, value, schema)

\* validate_value: the checks in source order, the first failure returned
validate_value(name, value, schema) ==
    IF ~check_type(name, value, schema).ok THEN check_type(name, value, schema)
    ELSE IF ~check_string(name, value, schema).ok THEN check_string(name, value, schema)
    ELSE IF ~check_number(name, value, schema).ok THEN check_number(name, value, schema)
    ELSE check_array(name, value, schema)

\* the smallest element of a non-empty set of positions
MinOf(S) == CHOOSE i \in S : \A j \in S : i <= j

\* mutant of validate_tool_args: the values are checked before the required
\* fields
validate_tool_args_ValuesFirst(schema, args, keys) ==
    LET properties == AndThen(Get(schema, STR_properties), as_object)
        required_arr == AndThen(Get(schema, STR_required), as_array)
        required == IF required_arr.some THEN filter_map_as_str(required_arr.v) ELSE <<>>
        has_required == required # <<>>
        additional == AndThen(Get(schema, STR_additionalProperties), as_bool)
        additional_properties == IF additional.some THEN additional.v ELSE TRUE
        args_obj == AndThen(args, as_object)
        unexpected == {i \in 1..Len(keys) : keys[i] \notin DOMAIN properties.v}
        missing == {i \in 1..Len(required) : required[i] \notin DOMAIN args_obj.v}
        failing == {i \in 1..Len(keys) :
                        /\ keys[i] \in DOMAIN properties.v
                        /\ ~validate_value(keys[i], args_obj.v[keys[i]],
                                           properties.v[keys[i]]).ok}
    IN  IF has_required /\ ~args.some
        THEN Err(MSG_MissingRequiredArguments \o join(required, STR_CommaSpace))
        ELSE IF ~args.some THEN Ok(<<>>)
        ELSE IF ~args_obj.some THEN Err(MSG_ArgumentsMustBeAnObject)
        ELSE IF ~additional_properties /\ properties.some /\ unexpected # {}
        THEN Err(MSG_UnexpectedParameter \o keys[MinOf(unexpected)] \o STR_Quote)
        ELSE IF properties.some /\ failing # {}
        THEN validate_value(keys[MinOf(failing)], args_obj.v[keys[MinOf(failing)]],
                            properties.v[keys[MinOf(failing)]])
        ELSE IF missing # {}
        THEN Err(MSG_MissingRequiredParameter \o required[MinOf(missing)] \o STR_Quote)
        ELSE Ok(<<>>)

\* mutant of validate_tool_args: a required key that holds null counts as
\* missing
validate_tool_args_NullIsMissing(schema, args, keys) ==
    LET properties == AndThen(Get(schema, STR_properties), as_object)
        required_arr == AndThen(Get(schema, STR_required), as_array)
        required == IF required_arr.some THEN filter_map_as_str(required_arr.v) ELSE <<>>
        has_required == required # <<>>
        additional == AndThen(Get(schema, STR_additionalProperties), as_bool)
        additional_properties == IF additional.some THEN additional.v ELSE TRUE
        args_obj == AndThen(args, as_object)
        unexpected == {i \in 1..Len(keys) : keys[i] \notin DOMAIN properties.v}
        missing == {i \in 1..Len(required) :
                        \/ required[i] \notin DOMAIN args_obj.v
                        \/ args_obj.v[required[i]] = JNull}
        failing == {i \in 1..Len(keys) :
                        /\ keys[i] \in DOMAIN properties.v
                        /\ ~validate_value(keys[i], args_obj.v[keys[i]],
                                           properties.v[keys[i]]).ok}
    IN  IF has_required /\ ~args.some
        THEN Err(MSG_MissingRequiredArguments \o join(required, STR_CommaSpace))
        ELSE IF ~args.some THEN Ok(<<>>)
        ELSE IF ~args_obj.some THEN Err(MSG_ArgumentsMustBeAnObject)
        ELSE IF ~additional_properties /\ properties.some /\ unexpected # {}
        THEN Err(MSG_UnexpectedParameter \o keys[MinOf(unexpected)] \o STR_Quote)
        ELSE IF missing # {}
        THEN Err(MSG_MissingRequiredParameter \o required[MinOf(missing)] \o STR_Quote)
        ELSE IF properties.some /\ failing # {}
        THEN validate_value(keys[MinOf(failing)], args_obj.v[keys[MinOf(failing)]],
                            properties.v[keys[MinOf(failing)]])
        ELSE Ok(<<>>)

\* validate_tool_args; keys is the order in which the arguments map yields
\* its keys (args_obj.keys() and the iteration over args_obj)
validate_tool_args(schema, args, keys) ==
    LET properties == AndThen(Get(schema, STR_properties), as_object)
        required_arr == AndThen(Get(schema, STR_required), as_array)
        required == IF required_arr.some THEN filter_map_as_str(required_arr.v) ELSE <<>>
        has_required == required # <<>>
        additional == AndThen(Get(schema, STR_additionalProperties), as_bool)
        additional_properties == IF additional.some THEN additional.v ELSE TRUE
        args_obj == AndThen(args, as_object)
        unexpected == {i \in 1..Len(keys) : keys[i] \notin DOMAIN properties.v}
        missing == {i \in 1..Len(required) : required[i] \notin DOMAIN args_obj.v}
        failing == {i \in 1..Len(keys) :
                        /\ keys[i] \in DOMAIN properties.v
                        /\ ~validate_value(keys[i], args_obj.v[keys[i]],
                                           properties.v[keys[i]]).ok}
    IN  IF has_required /\ ~args.some
        THEN Err(MSG_MissingRequiredArguments \o join(required, STR_CommaSpace))
        ELSE IF ~args.some THEN Ok(<<>>)
        ELSE IF ~args_obj.some THEN Err(MSG_ArgumentsMustBeAnObject)
        ELSE IF ~additional_properties /\ properties.some /\ unexpected # {}
        THEN Err(MSG_UnexpectedParameter \o keys[MinOf(unexpected)] \o STR_Quote)
        ELSE IF missing # {}
        THEN Err(MSG_MissingRequiredParameter \o required[MinOf(missing)] \o STR_Quote)
        ELSE IF properties.some /\ failing # {}
        THEN validate_value(keys[MinOf(failing)], args_obj.v[keys[MinOf(failing)]],
                            properties.v[keys[MinOf(failing)]])
        ELSE Ok(<<>>)

\* the orders in which a map of the given keys may yield them
KeyOrders(S) ==
    {k \in [1..Cardinality(S) -> S] : \A i, j \in 1..Cardinality(S) : i # j => k[i] # k[j]}

(***************************************************************************)
(* tools/mod.rs, tools/get_time.rs: the McpTool implementations, the       *)
(* registry and the executors                                              *)
(***************************************************************************)
\* #[mcp_tool] pub struct GetTimeTool
GetTimeTool == [kind |-> "GetTimeTool"]

\* MockTool::new(name, description) of tests/common
MockTool(name, description) ==
    [kind |-> "MockTool", name |-> name, description |-> description]

\* some other implementation of the McpTool trait
AnyTool(name, description) ==
    [kind |-> "AnyTool", name |-> name, description |-> description]

\* McpTool::name
McpTool_name(tool) ==
    IF tool.kind = "GetTimeTool" THEN STR_get_current_time ELSE tool.name

\* McpTool::description
McpTool_description(tool) ==
    IF tool.kind = "GetTimeTool" THEN STR_GetTimeDescription ELSE tool.description

\* GetTimeTool::parameters_schema
GetTimeTool_parameters_schema ==
    JObj((STR_type :> JStr(STR_object))
         @@ (STR_properties :> JObj(EmptyMap))
         @@ (STR_additionalProperties :> JBool(FALSE))
         @@ (STR_required :> JArr(<<>>)))

\* MockTool::parameters_schema
MockTool_parameters_schema ==
    JObj((STR_type :> JStr(STR_object))
         @@ (STR_properties :>
                JObj(STR_test_param :>
                        JObj((STR_type :> JStr(STR_string))
                             @@ (STR_description :> JStr(STR_TestParameter)))))
         @@ (STR_required :> JArr(<<>>))
         @@ (STR_additionalProperties :> JBool(FALSE)))

\* the schema declared by the other implementation: one required integer
AnyTool_parameters_schema ==
    JObj((STR_type :> JStr(STR_object))
         @@ (STR_properties :>
                JObj(STR_n :> JObj((STR_type :> JStr(STR_integer))
                                   @@ (STR_minimum :> JInt(1)))))
         @@ (STR_required :> JArr(<<JStr(STR_n)>>)))

\* McpTool::parameters_schema
McpTool_parameters_schema(tool) ==
    CASE tool.kind = "GetTimeTool" -> GetTimeTool_parameters_schema
      [] tool.kind = "MockTool" -> MockTool_parameters_schema
      [] tool.kind = "AnyTool" -> AnyTool_parameters_schema

\* the keys of the arguments when they are an object, no keys otherwise
ArgKeys(args) ==
    IF args.some /\ args.v.t = "object" THEN DOMAIN args.v.o ELSE {}

\* what Utc::now().to_rfc3339() can return
Timestamps == {STR_T1, STR_T2}

\* the values and failure messages the other implementation can produce
ToolValues == {JNull, JInt(1), JStr(STR_UTC), JObj(EmptyMap)}

ToolFailures ==
    {MSG_Empty, MSG_DatabaseConnectionFailed, MSG_WrongTypeForField,
     MSG_PARAMETERIsInvalid}

\* mutant of GetTimeTool_execute: the arguments are not validated
GetTimeTool_execute_Unvalidated(args, user) ==
    {[result |-> Ok(JObj(STR_current_time :> JStr(now))), steps |-> <<"work">>]
     : now \in Timestamps}

\* GetTimeTool::execute: validate_tool_args(&schema, &args)?, then the clock
\* is read. Each outcome is the result with the steps taken on the way.
GetTimeTool_execute(args, user) ==
    {LET checked == validate_tool_args(GetTimeTool_parameters_schema, args, keys)
     IN  IF ~checked.ok
         THEN [result |-> Err(checked.e), steps |-> <<"validate_tool_args">>]
         ELSE [result |-> Ok(JObj(STR_current_time :> JStr(now))),
               steps |-> <<"validate_tool_args", "work">>]
     : keys \in KeyOrders(ArgKeys(args)), now \in Timestamps}

\* MockTool::execute: the arguments and the user are ignored
MockTool_execute(args, user) ==
    {[result |-> Ok(JObj(STR_result :> JStr(STR_mock_result))),
      steps |-> <<"work">>]}

\* execute of the other implementation: any value or any failure
AnyTool_execute(args, user) ==
    {[result |-> Ok(v), steps |-> <<"work">>] : v \in ToolValues}
    \cup {[result |-> Err(m), steps |-> <<"work">>] : m \in ToolFailures}

\* McpTool::execute
McpTool_execute(tool, args, user) ==
    CASE tool.kind = "GetTimeTool" -> GetTimeTool_execute(args, user)
      [] tool.kind = "MockTool" -> MockTool_execute(args, user)
      [] tool.kind = "AnyTool" -> AnyTool_execute(args, user)

ToolDefinition(name, description, parameters) ==
    [name |-> name, description |-> description, parameters |-> parameters]

\* register_tool_boxed: push the definition, insert the closure under the name
register_tool_boxed(tool, reg) ==
    [reg EXCEPT
        !.tool_definitions =
            Append(@, ToolDefinition(McpTool_name(tool), McpTool_description(tool),
                                     McpTool_parameters_schema(tool))),
        !.func_registry =
            [n \in DOMAIN @ \cup {McpTool_name(tool)} |->
                IF n = McpTool_name(tool) THEN tool ELSE @[n]]]

RECURSIVE initialize_from_Unchecked(_, _)
\* mutant of initialize_from: the names are not checked for duplicates
initialize_from_Unchecked(entries, reg) ==
    IF entries = <<>> THEN reg
    ELSE initialize_from_Unchecked(Tail(entries),
                                   register_tool_boxed(Head(entries), reg))

RECURSIVE initialize_from(_, _)
\* the loop of initialize_all_tools over the remaining inventory entries
initialize_from(entries, reg) ==
    IF entries = <<>> \/ reg.panic.some THEN reg
    ELSE LET tool == Head(entries)
             name == McpTool_name(tool)
         IN  IF name \in reg.seen_names
             THEN [reg EXCEPT !.panic = Some(name)]
             ELSE initialize_from(
                      Tail(entries),
                      register_tool_boxed(tool,
                          [reg EXCEPT !.seen_names = @ \cup {name}]))

\* initialize_all_tools over the inventory of ToolEntry, in iteration order
initialize_all_tools(inventory) ==
    initialize_from(inventory,
                    [func_registry |-> EmptyMap, tool_definitions |-> <<>>,
                     seen_names |-> {}, panic |-> None])

(***************************************************************************)
(* lib.rs: the classifier and the responses of handle_mcp_request          *)
(***************************************************************************)
\* mutant of validation_keywords: "required" is not among the keywords
validation_keywords_WithoutRequired ==
    <<KW_parameter, KW_Unexpected, KW_Missing, KW_must_be,
      KW_exceeds_maximum, KW_at_least, KW_characters_long, KW_type>>

validation_keywords ==
    <<KW_parameter, KW_required, KW_Unexpected, KW_Missing, KW_must_be,
      KW_exceeds_maximum, KW_at_least, KW_characters_long, KW_type>>

\* mutant of is_param_validation_error: the last keyword is not tried
is_param_validation_error_EightKeywords(msg) ==
    \E i \in 1..(Len(validation_keywords) - 1) : contains(msg, validation_keywords[i])

is_param_validation_error(msg) ==
    \E i \in 1..Len(validation_keywords) : contains(msg, validation_keywords[i])

\* the Err(e) arm: classify the message and wrap it
ErrorResponse(msg) ==
    LET error_code == IF is_param_validation_error(msg)
                      THEN ERROR_INVALID_PARAMS ELSE ERROR_TOOL_EXECUTION
        error_prefix == IF is_param_validation_error(msg)
                        THEN STR_InvalidParameters ELSE STR_ToolExecutionError
    IN  McpResponse_error(error_code, error_prefix \o STR_ColonSpace \o msg, None)

\* mutant of InvokeResponse: the value of the tool is wrapped in an object
InvokeResponse_Wrapped(outcome) ==
    IF outcome.ok
    THEN McpResponse_success(JObj(STR_result :> outcome.v))
    ELSE ErrorResponse(outcome.e)

\* the response to the outcome of tool_func(arguments, user).await
InvokeResponse(outcome) ==
    IF outcome.ok THEN McpResponse_success(outcome.v) ELSE ErrorResponse(outcome.e)

\* the Discover arm
DiscoverResponse(definitions) ==
    McpResponse_success(
        JObj(STR_tools :>
                JArr([i \in 1..Len(definitions) |->
                        SerializeToolDefinition(definitions[i])])))

\* mutant of NotFoundResponse: the names are listed in reverse order
NotFoundResponse_Reversed(tool_name, definitions) ==
    LET count == Len(definitions)
        available_tools == [i \in 1..count |-> JStr(definitions[count + 1 - i].name)]
    IN  McpResponse_error(
            ERROR_METHOD_NOT_FOUND,
            STR_ToolQuote \o tool_name \o STR_QuoteNotFound,
            Some(JObj(STR_available_tools :> JArr(available_tools))))

\* the arm of a tool name that is not in the registry
NotFoundResponse(tool_name, definitions) ==
    LET available_tools == [i \in 1..Len(definitions) |-> JStr(definitions[i].name)]
    IN  McpResponse_error(
            ERROR_METHOD_NOT_FOUND,
            STR_ToolQuote \o tool_name \o STR_QuoteNotFound,
            Some(JObj(STR_available_tools :> JArr(available_tools))))

\* mutant of Json_into_response: an error envelope is sent with status 400
Json_into_response_ErrorStatus(mcp_response) ==
    JsonResponse(IF mcp_response.error.some THEN 400 ELSE StatusOK,
                 SerializeMcpResponse(mcp_response))

\* Json(response) returned by the handler: status 200
Json_into_response(mcp_response) ==
    JsonResponse(StatusOK, SerializeMcpResponse(mcp_response))

\* health_check
health_check == TextResponse(StatusOK, STR_OK)

\* the rejection of the Json<McpRequest> extractor for a body that is no envelope
JsonRejection(body) ==
    [status |-> CASE body.kind = "missing_json_content_type" -> 415
                  [] body.kind = "json_syntax_error" -> 400
                  [] body.kind = "json_data_error" -> 422,
     kind |-> "rejection"]

\* the rejection of Extension<AuthenticatedUser> when the extension is missing
MissingExtensionRejection == [status |-> 500, kind |-> "rejection"]

(***************************************************************************)
(* The credential stores, inventories and requests the model draws from    *)
(***************************************************************************)
Alice == UserCredentials(STR_alice, STR_k1, EmptyMap)

Bob == UserCredentials(STR_bob, STR_k2, STR_postgres_url :> STR_PostgresUrlValue)

Eve == UserCredentials(STR_eve, <<>>, EmptyMap)

\* no user, two users, and a user whose api_key is the empty string
Stores ==
    {EmptyMap,
     (STR_k1 :> Alice) @@ (STR_k2 :> Bob),
     (<<>> :> Eve) @@ (STR_k1 :> Alice)}

\* the ToolEntry inventories, in iteration order
Inventories ==
    {<<GetTimeTool>>,
     <<GetTimeTool, MockTool(STR_test_tool, STR_MockDescription)>>,
     <<AnyTool(STR_any_tool, STR_AnyDescription), GetTimeTool>>}

HeaderPrefixes ==
    {<<>>, STR_BearerPrefix, STR_bearerLower, STR_Basic, STR_BearerNoSpace}

HeaderTokens == {<<>>, STR_k1, STR_k2, STR_k3, <<"k", "0xFF">>}

\* a HeaderMap without and with an authorization header
HeaderMaps ==
    {EmptyMap}
    \cup {STR_authorization :> (p \o t) : p \in HeaderPrefixes, t \in HeaderTokens}

RequestedNames ==
    {STR_get_current_time, STR_Get_Current_Time, STR_test_tool, STR_any_tool,
     STR_bogus, <<>>}

RequestedArguments ==
    {None,
     Some(JObj(EmptyMap)),
     Some(JObj(STR_tz :> JStr(STR_UTC))),
     Some(JObj((STR_tz :> JStr(STR_UTC)) @@ (STR_n :> JInt(1)))),
     Some(JObj(STR_n :> JInt(0))),
     Some(JStr(STR_UTC)),
     Some(JArr(<<>>))}

\* McpRequest
McpRequest_Discover == [method |-> "discover"]

McpRequest_Invoke(tool_name, arguments) ==
    [method |-> "invoke", tool_name |-> tool_name, arguments |-> arguments]

Envelopes ==
    {McpRequest_Discover}
    \cup {McpRequest_Invoke(n, a) : n \in RequestedNames, a \in RequestedArguments}

\* a body that deserializes to an envelope, or one the extractor rejects
Bodies ==
    {[kind |-> "envelope", request |-> e] : e \in Envelopes}
    \cup {[kind |-> k] :
            k \in {"missing_json_content_type", "json_syntax_error", "json_data_error"}}

\* Spec follows one request slot, reused by successive requests
SingleSlot == {"r1"}

(***************************************************************************)
(* The state after create_app and the steps of a request                   *)
(***************************************************************************)
Fresh(slots, v) == [r \in slots |-> v]

\* load_credentials is not under way
LoaderIdle ==
    /\ config = [env |-> None, file |-> [kind |-> "unreadable"]]
    /\ loaded = None

\* create_app(credentials) for a store and an inventory whose build succeeds
InitApp(stores, inventories, slots) ==
    /\ credentials \in stores
    /\ \E inventory \in inventories :
          LET built == initialize_all_tools(inventory)
          IN  /\ ~built.panic.some
              /\ tool_entries = inventory
              /\ panicked = None
              /\ tool_registry = built.func_registry
              /\ tool_definitions = built.tool_definitions
    /\ LoaderIdle
    /\ pc = Fresh(slots, "idle")
    /\ req = Fresh(slots, None)
    /\ extensions = Fresh(slots, None)
    /\ payload = Fresh(slots, None)
    /\ calls = Fresh(slots, <<>>)
    /\ returned = Fresh(slots, None)
    /\ log = Fresh(slots, <<>>)
    /\ resp = Fresh(slots, None)

\* no validator run is under way
ValidatorIdle ==
    /\ given_schema = JNull
    /\ given_args = None
    /\ given_name = <<>>
    /\ given_value = JNull
    /\ validation = None

\* no classifier run is under way
ClassifierIdle ==
    /\ error_msg = <<>>
    /\ classified = None

Init ==
    /\ InitApp(Stores, Inventories, SingleSlot)
    /\ ClassifierIdle
    /\ ValidatorIdle

app == <<credentials, tool_registry, tool_definitions>>

classifier == <<error_msg, classified>>

startup == <<config, loaded, tool_entries, panicked>>

validator == <<given_schema, given_args, given_name, given_value, validation>>

\* a request is received
Arrive(r, headerMaps, bodies) ==
    /\ pc[r] = "idle"
    /\ \/ \E h \in headerMaps, b \in bodies :
             req' = [req EXCEPT ![r] =
                        Some([method |-> "POST", path |-> "/mcp",
                              headers |-> h, body |-> b])]
       \/ \E h \in headerMaps :
             req' = [req EXCEPT ![r] =
                        Some([method |-> "GET", path |-> "/health",
                              headers |-> h, body |-> [kind |-> "empty"]])]
    /\ pc' = [pc EXCEPT ![r] = "router"]
    /\ UNCHANGED <<app, extensions, payload, calls, returned, log, resp, classifier, startup, validator>>

\* mutant of Route: /health was added before the layer and lies under it too
Route_HealthUnderLayer(r) ==
    /\ pc[r] = "router"
    /\ pc' = [pc EXCEPT ![r] = "layer"]
    /\ UNCHANGED <<app, req, extensions, payload, calls, returned, log, resp, classifier, startup, validator>>

\* the Router of create_app: /mcp lies under the AuthLayer, /health was
\* added after the layer and does not
Route(r) ==
    /\ pc[r] = "router"
    /\ pc' = [pc EXCEPT ![r] = IF req[r].v.path = "/mcp" THEN "layer" ELSE "health"]
    /\ UNCHANGED <<app, req, extensions, payload, calls, returned, log, resp, classifier, startup, validator>>

\* mutant of AuthMiddleware_call: a rejected request is still forwarded
AuthMiddleware_call_Forwards(r) ==
    /\ pc[r] = "layer"
    /\ LET auth == authenticate(req[r].v.headers, credentials)
       IN  /\ extensions' = [extensions EXCEPT ![r] =
                                IF auth.result.ok
                                THEN Some(AuthenticatedUser(auth.result.v))
                                ELSE None]
           /\ log' = [log EXCEPT ![r] = @ \o <<"authenticate", "inner.call">>]
    /\ pc' = [pc EXCEPT ![r] = "inner"]
    /\ UNCHANGED <<app, req, payload, calls, returned, resp, classifier, startup, validator>>

\* mutant of AuthMiddleware_call: a key that authenticated a request is
\* taken out of the store
AuthMiddleware_call_ConsumesKey(r) ==
    /\ pc[r] = "layer"
    /\ LET auth == authenticate(req[r].v.headers, credentials)
           looked == [i \in 1..Len(auth.lookups) |-> "store.get"]
       IN  IF auth.result.ok
           THEN /\ extensions' = [extensions EXCEPT ![r] =
                                    Some(AuthenticatedUser(auth.result.v))]
                /\ credentials' =
                      [k \in DOMAIN credentials \ {auth.lookups[1]} |-> credentials[k]]
                /\ log' = [log EXCEPT ![r] =
                              @ \o <<"authenticate">> \o looked \o <<"inner.call">>]
                /\ pc' = [pc EXCEPT ![r] = "inner"]
                /\ resp' = resp
           ELSE /\ resp' = [resp EXCEPT ![r] =
                              Some(AuthError_into_response(auth.result.e))]
                /\ log' = [log EXCEPT ![r] = @ \o <<"authenticate">> \o looked]
                /\ pc' = [pc EXCEPT ![r] = "done"]
                /\ UNCHANGED <<extensions, credentials>>
    /\ UNCHANGED <<tool_registry, tool_definitions, req, payload, calls, returned,
                   classifier, startup, validator>>

\* AuthMiddleware::call
AuthMiddleware_call(r) ==
    /\ pc[r] = "layer"
    /\ LET auth == authenticate(req[r].v.headers, credentials)
           looked == [i \in 1..Len(auth.lookups) |-> "store.get"]
       IN  IF auth.result.ok
           THEN /\ extensions' = [extensions EXCEPT ![r] =
                                    Some(AuthenticatedUser(auth.result.v))]
                /\ log' = [log EXCEPT ![r] =
                              @ \o <<"authenticate">> \o looked \o <<"inner.call">>]
                /\ pc' = [pc EXCEPT ![r] = "inner"]
                /\ resp' = resp
           ELSE /\ resp' = [resp EXCEPT ![r] =
                              Some(AuthError_into_response(auth.result.e))]
                /\ log' = [log EXCEPT ![r] = @ \o <<"authenticate">> \o looked]
                /\ pc' = [pc EXCEPT ![r] = "done"]
                /\ extensions' = extensions
    /\ UNCHANGED <<app, req, payload, calls, returned, classifier, startup, validator>>

\* the extractors of handle_mcp_request: State, Extension<AuthenticatedUser>
\* (a request without the extension is rejected), then Json<McpRequest>
Extract(r) ==
    /\ pc[r] = "inner"
    /\ IF ~extensions[r].some
       THEN /\ resp' = [resp EXCEPT ![r] = Some(MissingExtensionRejection)]
            /\ pc' = [pc EXCEPT ![r] = "done"]
            /\ UNCHANGED <<payload, log>>
       ELSE IF req[r].v.body.kind = "envelope"
       THEN /\ payload' = [payload EXCEPT ![r] = Some(req[r].v.body.request)]
            /\ log' = [log EXCEPT ![r] = Append(@, "Json::from_request")]
            /\ pc' = [pc EXCEPT ![r] = "handler"]
            /\ resp' = resp
       ELSE /\ resp' = [resp EXCEPT ![r] = Some(JsonRejection(req[r].v.body))]
            /\ log' = [log EXCEPT ![r] = Append(@, "Json::from_request")]
            /\ pc' = [pc EXCEPT ![r] = "done"]
            /\ payload' = payload
    /\ UNCHANGED <<app, req, extensions, calls, returned, classifier, startup, validator>>

\* mutant of Discover: a user without external keys is shown the first
\* tool only
Discover_OwnTools(r) ==
    /\ pc[r] = "handler"
    /\ payload[r].v.method = "discover"
    /\ resp' = [resp EXCEPT ![r] =
                  Some(Json_into_response(DiscoverResponse(
                      IF DOMAIN extensions[r].v.credentials.external_keys = {}
                      THEN SubSeq(tool_definitions, 1, 1)
                      ELSE tool_definitions)))]
    /\ log' = [log EXCEPT ![r] = Append(@, "discover")]
    /\ pc' = [pc EXCEPT ![r] = "done"]
    /\ UNCHANGED <<app, req, extensions, payload, calls, returned, classifier, startup, validator>>

\* handle_mcp_request, McpRequest::Discover
Discover(r) ==
    /\ pc[r] = "handler"
    /\ payload[r].v.method = "discover"
    /\ resp' = [resp EXCEPT ![r] =
                  Some(Json_into_response(DiscoverResponse(tool_definitions)))]
    /\ log' = [log EXCEPT ![r] = Append(@, "discover")]
    /\ pc' = [pc EXCEPT ![r] = "done"]
    /\ UNCHANGED <<app, req, extensions, payload, calls, returned, classifier, startup, validator>>

\* handle_mcp_request, McpRequest::Invoke, tool_registry.get misses
InvokeNotFound(r) ==
    /\ pc[r] = "handler"
    /\ payload[r].v.method = "invoke"
    /\ payload[r].v.tool_name \notin DOMAIN tool_registry
    /\ resp' = [resp EXCEPT ![r] =
                  Some(Json_into_response(
                          NotFoundResponse(payload[r].v.tool_name, tool_definitions)))]
    /\ log' = [log EXCEPT ![r] = Append(@, "tool_registry.get")]
    /\ pc' = [pc EXCEPT ![r] = "done"]
    /\ UNCHANGED <<app, req, extensions, payload, calls, returned, classifier, startup, validator>>

\* mutant of InvokeCall: the user is read from a place all requests share,
\* where the layer of any request may have put its own
InvokeCall_SharedUser(r) ==
    /\ pc[r] = "handler"
    /\ payload[r].v.method = "invoke"
    /\ payload[r].v.tool_name \in DOMAIN tool_registry
    /\ \E q \in DOMAIN pc :
          /\ extensions[q].some
          /\ calls' = [calls EXCEPT ![r] =
                          Append(@, [tool |-> tool_registry[payload[r].v.tool_name],
                                     args |-> payload[r].v.arguments,
                                     user |-> extensions[q].v])]
    /\ log' = [log EXCEPT ![r] = @ \o <<"tool_registry.get", "tool_func">>]
    /\ pc' = [pc EXCEPT ![r] = "awaiting"]
    /\ UNCHANGED <<app, req, extensions, payload, returned, resp, classifier, startup, validator>>

\* handle_mcp_request, McpRequest::Invoke, tool_registry.get hits:
\* tool_func(arguments, user) is called and awaited
InvokeCall(r) ==
    /\ pc[r] = "handler"
    /\ payload[r].v.method = "invoke"
    /\ payload[r].v.tool_name \in DOMAIN tool_registry
    /\ calls' = [calls EXCEPT ![r] =
                    Append(@, [tool |-> tool_registry[payload[r].v.tool_name],
                               args |-> payload[r].v.arguments,
                               user |-> extensions[r].v])]
    /\ log' = [log EXCEPT ![r] = @ \o <<"tool_registry.get", "tool_func">>]
    /\ pc' = [pc EXCEPT ![r] = "awaiting"]
    /\ UNCHANGED <<app, req, extensions, payload, returned, resp, classifier, startup, validator>>

\* mutant of InvokeReturn: after a failure the executor is called once more
InvokeReturn_Retry(r) ==
    /\ pc[r] = "awaiting"
    /\ LET call == calls[r][Len(calls[r])]
       IN  \E outcome \in McpTool_execute(call.tool, call.args, call.user) :
              IF ~outcome.result.ok /\ Len(calls[r]) = 1
              THEN /\ calls' = [calls EXCEPT ![r] = Append(@, call)]
                   /\ log' = [log EXCEPT ![r] = @ \o outcome.steps \o <<"tool_func">>]
                   /\ UNCHANGED <<returned, resp, pc>>
              ELSE /\ returned' = [returned EXCEPT ![r] = Some(outcome.result)]
                   /\ resp' = [resp EXCEPT ![r] =
                                 Some(Json_into_response(InvokeResponse(outcome.result)))]
                   /\ log' = [log EXCEPT ![r] = @ \o outcome.steps]
                   /\ pc' = [pc EXCEPT ![r] = "done"]
                   /\ UNCHANGED calls
    /\ UNCHANGED <<app, req, extensions, payload, classifier, startup, validator>>

\* the future of the tool completes and the handler wraps its outcome
InvokeReturn(r) ==
    /\ pc[r] = "awaiting"
    /\ LET call == calls[r][Len(calls[r])]
       IN  \E outcome \in McpTool_execute(call.tool, call.args, call.user) :
              /\ returned' = [returned EXCEPT ![r] = Some(outcome.result)]
              /\ resp' = [resp EXCEPT ![r] =
                            Some(Json_into_response(InvokeResponse(outcome.result)))]
              /\ log' = [log EXCEPT ![r] = @ \o outcome.steps]
    /\ pc' = [pc EXCEPT ![r] = "done"]
    /\ UNCHANGED <<app, req, extensions, payload, calls, classifier, startup, validator>>

\* GET /health: health_check
Health(r) ==
    /\ pc[r] = "health"
    /\ resp' = [resp EXCEPT ![r] = Some(health_check)]
    /\ log' = [log EXCEPT ![r] = Append(@, "health_check")]
    /\ pc' = [pc EXCEPT ![r] = "done"]
    /\ UNCHANGED <<app, req, extensions, payload, calls, returned, classifier, startup, validator>>

\* the response is sent; the request and all that belonged to it are dropped
Respond(r) ==
    /\ pc[r] = "done"
    /\ pc' = [pc EXCEPT ![r] = "idle"]
    /\ req' = [req EXCEPT ![r] = None]
    /\ extensions' = [extensions EXCEPT ![r] = None]
    /\ payload' = [payload EXCEPT ![r] = None]
    /\ calls' = [calls EXCEPT ![r] = <<>>]
    /\ returned' = [returned EXCEPT ![r] = None]
    /\ log' = [log EXCEPT ![r] = <<>>]
    /\ resp' = [resp EXCEPT ![r] = None]
    /\ UNCHANGED <<app, classifier, startup, validator>>

Next ==
    \/ \E r \in DOMAIN pc : Arrive(r, HeaderMaps, Bodies)
    \/ \E r \in DOMAIN pc : Route(r)
    \/ \E r \in DOMAIN pc : AuthMiddleware_call(r)
    \/ \E r \in DOMAIN pc : Extract(r)
    \/ \E r \in DOMAIN pc : Discover(r)
    \/ \E r \in DOMAIN pc : InvokeNotFound(r)
    \/ \E r \in DOMAIN pc : InvokeCall(r)
    \/ \E r \in DOMAIN pc : InvokeReturn(r)
    \/ \E r \in DOMAIN pc : Health(r)
    \/ \E r \in DOMAIN pc : Respond(r)

Spec == Init /\ [][Next]_vars

\* the steps of the task that serves the request in slot r
Serve(r) ==
    \/ Route(r)
    \/ AuthMiddleware_call(r)
    \/ Extract(r)
    \/ Discover(r)
    \/ InvokeNotFound(r)
    \/ InvokeCall(r)
    \/ InvokeReturn(r)
    \/ Health(r)
    \/ Respond(r)

\* the runtime keeps polling the task of a request until it is done, and
\* the futures of the tools complete
SpecFair == Spec /\ \A r \in SingleSlot : WF_vars(Serve(r))

(***************************************************************************)
(* The classifier applied to failure messages                              *)
(***************************************************************************)
\* a failure message is made of at most this many pieces
MaxFragments == 2

Fragments ==
    {KW_parameter, KW_required, KW_Unexpected, KW_Missing, KW_must_be,
     KW_exceeds_maximum, KW_at_least, KW_characters_long, KW_type,
     FR_Parameter, FR_REQUIRED, FR_unexpected, FR_missing, FR_MustBe, FR_must,
     FR_be, FR_typ, FR_e, FR_at, FR_least, FR_exceeds, FR_maximum,
     FR_characters, FR_long, FR_Space, FR_failed}

FailureMessages ==
    {join(pieces, <<>>) :
        pieces \in UNION {[1..n -> Fragments] : n \in 0..MaxFragments}}

\* the application is built and a failure message is about to be classified
InitClassifier ==
    /\ InitApp({EmptyMap}, {<<GetTimeTool>>}, {})
    /\ error_msg \in FailureMessages
    /\ classified = None
    /\ ValidatorIdle

\* the Err(e) arm of handle_mcp_request on the message
Classify ==
    /\ ~classified.some
    /\ classified' = Some(ErrorResponse(error_msg))
    /\ UNCHANGED <<app, pc, req, extensions, payload, calls, returned, log, resp,
                   error_msg, startup, validator>>

NextClassifier == Classify

SpecClassifier == InitClassifier /\ [][NextClassifier]_vars

(***************************************************************************)
(* Startup: create_app builds the registry from the inventory              *)
(***************************************************************************)
\* the inventory holds at most this many entries
MaxTools == 3

MSG_DuplicateToolName ==
    <<"D", "u", "p", "l", "i", "c", "a", "t", "e", " ", "t", "o", "o", "l",
      " ", "n", "a", "m", "e", " ", "d", "e", "t", "e", "c", "t", "e", "d",
      ":", " ", "'">>

MSG_EachToolUnique ==
    <<"'", ".", " ", "E", "a", "c", "h", " ", "t", "o", "o", "l", " ", "m",
      "u", "s", "t", " ", "h", "a", "v", "e", " ", "a", " ", "u", "n", "i",
      "q", "u", "e", " ", "n", "a", "m", "e", ".">>

\* the tools an inventory may hold; some report the same name
StartupTools ==
    {GetTimeTool,
     MockTool(STR_test_tool, STR_MockDescription),
     MockTool(STR_get_current_time, STR_MockDescription),
     AnyTool(STR_any_tool, STR_AnyDescription),
     AnyTool(STR_test_tool, STR_AnyDescription)}

StartupInventories == UNION {[1..n -> StartupTools] : n \in 0..MaxTools}

\* the process is about to call create_app
InitStartup ==
    /\ credentials \in {(STR_k1 :> Alice) @@ (STR_k2 :> Bob)}
    /\ tool_entries \in StartupInventories
    /\ panicked = None
    /\ LoaderIdle
    /\ tool_registry = EmptyMap
    /\ tool_definitions = <<>>
    /\ pc = Fresh({"main"}, "create_app")
    /\ req = Fresh({}, None)
    /\ extensions = Fresh({}, None)
    /\ payload = Fresh({}, None)
    /\ calls = Fresh({}, <<>>)
    /\ returned = Fresh({}, None)
    /\ log = Fresh({}, <<>>)
    /\ resp = Fresh({}, None)
    /\ ClassifierIdle
    /\ ValidatorIdle

\* create_app: initialize_all_tools returns the registry and the
\* definitions, or panics on the first name seen twice
Build ==
    /\ pc = Fresh({"main"}, "create_app")
    /\ LET built == initialize_all_tools(tool_entries)
       IN  IF built.panic.some
           THEN /\ panicked' = Some(MSG_DuplicateToolName \o built.panic.v
                                    \o MSG_EachToolUnique)
                /\ pc' = Fresh({"main"}, "panicked")
                /\ UNCHANGED <<tool_registry, tool_definitions>>
           ELSE /\ tool_registry' = built.func_registry
                /\ tool_definitions' = built.tool_definitions
                /\ pc' = Fresh({"main"}, "serving")
                /\ panicked' = panicked
    /\ UNCHANGED <<credentials, config, loaded, tool_entries, req, extensions,
                   payload, calls, returned, log, resp, classifier, validator>>

NextStartup == Build

SpecStartup == InitStartup /\ [][NextStartup]_vars

(***************************************************************************)
(* Startup: load_credentials reads the credentials file                    *)
(***************************************************************************)
\* the credentials file holds at most this many users
MaxUsers == 2

\* a user's section of the file; one api key is also a user name
GivenUserConfigs ==
    [api_key : {STR_k1, STR_k2, STR_alice},
     external_keys : {EmptyMap, STR_postgres_url :> STR_PostgresUrlValue}]

GivenFiles ==
    {[kind |-> "unreadable"], [kind |-> "unparsable"]}
    \cup {[kind |-> "parsed", users |-> u] :
            u \in UNION {[S -> GivenUserConfigs] :
                            S \in {T \in SUBSET {STR_alice, STR_bob, STR_eve} :
                                      Cardinality(T) <= MaxUsers}}}

\* the process is about to call load_credentials
InitLoader ==
    /\ credentials = EmptyMap
    /\ config \in [env : {None, Some(STR_OtherCredentialsPath)}, file : GivenFiles]
    /\ loaded = None
    /\ tool_entries = <<>>
    /\ panicked = None
    /\ tool_registry = EmptyMap
    /\ tool_definitions = <<>>
    /\ pc = Fresh({"main"}, "load_credentials")
    /\ req = Fresh({}, None)
    /\ extensions = Fresh({}, None)
    /\ payload = Fresh({}, None)
    /\ calls = Fresh({}, <<>>)
    /\ returned = Fresh({}, None)
    /\ log = Fresh({}, <<>>)
    /\ resp = Fresh({}, None)
    /\ ClassifierIdle
    /\ ValidatorIdle

\* setup_server: load_credentials returns the store, which create_app
\* takes, or fails and the process does not serve
Load ==
    /\ pc = Fresh({"main"}, "load_credentials")
    /\ \E order \in KeyOrders(IF config.file.kind = "parsed"
                               THEN DOMAIN config.file.users ELSE {}) :
          LET result == load_credentials(config.env, config.file, order)
          IN  /\ loaded' = Some(result)
              /\ credentials' = IF result.ok THEN result.v ELSE credentials
              /\ pc' = Fresh({"main"}, IF result.ok THEN "create_app" ELSE "failed")
    /\ UNCHANGED <<tool_registry, tool_definitions, config, tool_entries, panicked,
                   req, extensions, payload, calls, returned, log, resp, classifier,
                   validator>>

NextLoader == Load

SpecLoader == InitLoader /\ [][NextLoader]_vars

(***************************************************************************)
(* The validator applied to schemas and arguments                          *)
(***************************************************************************)
\* an arguments object has at most this many keys
MaxArgKeys == 2

STR_float == <<"f", "l", "o", "a", "t">>

ValidatorNames == {STR_n, STR_tz, STR_test_param}

\* numbers, strings, null, and values that hold a value of their own
ValidatorValues ==
    {JInt(1), JInt(0), JStr(STR_UTC), JStr(STR_tz), JNull, JArr(<<JInt(0)>>),
     JObj(STR_n :> JInt(0))}

ArgumentObjects ==
    {JObj(o) :
        o \in UNION {[S -> ValidatorValues] :
                        S \in {T \in SUBSET ValidatorNames : Cardinality(T) <= MaxArgKeys}}}

\* absent arguments, arguments that are no object, and objects
GivenArgs ==
    {None}
    \cup {Some(v) : v \in {JNull, JStr(STR_UTC), JInt(1), JFloat(3), JBool(TRUE),
                            JArr(<<>>)}}
    \cup {Some(v) : v \in ArgumentObjects}

\* a member of a schema that may be left out
Member(key, opt) == IF opt.some THEN key :> opt.v ELSE EmptyMap

GivenProperties ==
    {None,
     Some(JObj(EmptyMap)),
     Some(JObj(STR_n :> JObj(STR_type :> JStr(STR_integer)))),
     Some(JObj((STR_n :> JObj(STR_type :> JStr(STR_integer)))
               @@ (STR_tz :> JObj(STR_type :> JStr(STR_string))))),
     Some(JObj((STR_n :> JObj(STR_minimum :> JInt(1)))
               @@ (STR_tz :> JObj((STR_minLength :> JInt(3))
                                  @@ (STR_pattern :> JStr(<<"^", "U", "*">>))))
               @@ (STR_test_param :> JObj(STR_maxItems :> JInt(0))))),
     Some(JObj((STR_n :> JObj(STR_maximum :> JInt(0)))
               @@ (STR_tz :> JObj((STR_maxLength :> JInt(2))
                                  @@ (STR_pattern :> JStr(<<"^", "U", "*">>)))))),
     Some(JInt(1))}

GivenRequired ==
    {None,
     Some(JArr(<<>>)),
     Some(JArr(<<JStr(STR_n)>>)),
     Some(JArr(<<JStr(STR_tz), JStr(STR_n)>>)),
     Some(JArr(<<JStr(STR_tz), JStr(STR_n), JStr(STR_test_param)>>)),
     Some(JArr(<<JInt(1), JStr(STR_n)>>))}

GivenAdditional == {None, Some(JBool(TRUE)), Some(JBool(FALSE)), Some(JStr(STR_UTC))}

GivenSchemas ==
    {JObj((STR_type :> JStr(STR_object))
          @@ Member(STR_properties, p)
          @@ Member(STR_required, q)
          @@ Member(STR_additionalProperties, a)) :
        p \in GivenProperties, q \in GivenRequired, a \in GivenAdditional}

\* validate_tool_args is about to be called with a schema and arguments
InitValidator ==
    /\ InitApp({EmptyMap}, {<<GetTimeTool>>}, {})
    /\ ClassifierIdle
    /\ given_schema \in GivenSchemas
    /\ given_args \in GivenArgs
    /\ given_name = <<>>
    /\ given_value = JNull
    /\ validation = None

\* validate_tool_args(&schema, &args), the arguments map yielding its keys
\* in some order
Validate ==
    /\ ~validation.some
    /\ \E keys \in KeyOrders(ArgKeys(given_args)) :
          validation' = Some(validate_tool_args(given_schema, given_args, keys))
    /\ UNCHANGED <<app, pc, req, extensions, payload, calls, returned, log, resp,
                   classifier, startup, given_schema, given_args, given_name,
                   given_value>>

\* the tool returns the failure of validate_tool_args as its own (the ? of
\* an executor) and the Err(e) arm of handle_mcp_request classifies it
ClassifyValidationFailure ==
    /\ validation.some
    /\ ~validation.v.ok
    /\ ~classified.some
    /\ error_msg' = validation.v.e
    /\ classified' = Some(ErrorResponse(validation.v.e))
    /\ UNCHANGED <<app, pc, req, extensions, payload, calls, returned, log, resp,
                   startup, validator>>

NextValidator ==
    \/ Validate
    \/ ClassifyValidationFailure

SpecValidator == InitValidator /\ [][NextValidator]_vars

\* the values and sub-schemas validate_value is applied to
STR_a == <<"a">>
STR_ab == <<"a", "b">>
STR_aStar == <<"a", "*">>
STR_Caret_a == <<"^", "a">>
STR_e_acute == <<"U+00E9">>

GivenStrings == {<<>>, STR_a, STR_ab, STR_aStar, STR_Caret_a, STR_UTC, STR_e_acute}

GivenNumbers ==
    {JInt(0), JInt(1), JInt(-1), JInt(2), JFloat(1), JFloat(2), JFloat(3),
     JBig(0), JBig(1), JBig(2), JBig(3)}

GivenValues ==
    {JNull, JBool(TRUE), JObj(EmptyMap),
     JArr(<<>>), JArr(<<JInt(1)>>), JArr(<<JInt(1), JInt(1)>>)}
    \cup GivenNumbers
    \cup {JStr(s) : s \in GivenStrings}

GivenTypes ==
    {STR_string, STR_integer, STR_number, STR_boolean, STR_array, STR_object,
     STR_null, STR_float}

\* patterns of the form ^<prefix>*, patterns of other forms, and a pattern
\* that is no string
GivenPatterns ==
    {JStr(<<"^", "a", "*">>), JStr(<<"^", "a", "*", "*">>), JStr(<<"^", "^", "a", "*">>),
     JStr(<<"^", "*">>), JStr(STR_aStar), JStr(STR_Caret_a), JInt(1)}

\* the values each constraint keyword is given
GivenKeywords ==
    (STR_minLength :> {JInt(2), JFloat(4)})
    @@ (STR_maxLength :> {JInt(2), JInt(0), JInt(-1)})
    @@ (STR_pattern :> GivenPatterns)
    @@ (STR_minimum :> {JInt(1), JFloat(3), JBig(1), JBig(3)})
    @@ (STR_maximum :> {JInt(1), JFloat(1), JBig(0), JBig(2), JStr(STR_UTC)})
    @@ (STR_maxItems :> {JInt(1), JInt(0)})

\* sub-schemas with up to two constraint keywords
GivenConstraints ==
    UNION {[K -> UNION {GivenKeywords[k] : k \in K}] :
              K \in {L \in SUBSET DOMAIN GivenKeywords : Cardinality(L) <= 2}}

GivenSubSchemas ==
    {JObj(STR_type :> JStr(t)) : t \in GivenTypes}
    \cup {JObj(EmptyMap), JObj(STR_type :> JInt(1)), JBool(TRUE)}
    \cup {JObj(Member(STR_type, t) @@ c) :
            t \in {None, Some(JStr(STR_string)), Some(JStr(STR_integer)),
                   Some(JStr(STR_number)), Some(JStr(STR_array))},
            c \in {d \in GivenConstraints : \A k \in DOMAIN d : d[k] \in GivenKeywords[k]}}

\* validate_value is about to be called
InitValue ==
    /\ InitApp({EmptyMap}, {<<GetTimeTool>>}, {})
    /\ ClassifierIdle
    /\ given_schema \in GivenSubSchemas
    /\ given_args = None
    /\ given_name \in {STR_n, STR_tz}
    /\ given_value \in GivenValues
    /\ validation = None

\* validate_value(name, value, schema)
ValidateValue ==
    /\ ~validation.some
    /\ validation' = Some(validate_value(given_name, given_value, given_schema))
    /\ UNCHANGED <<app, pc, req, extensions, payload, calls, returned, log, resp,
                   classifier, startup, given_schema, given_args, given_name,
                   given_value>>

NextValue == ValidateValue

SpecValue == InitValue /\ [][NextValue]_vars

(***************************************************************************)
(* Requests served concurrently: axum::serve runs one task per connection  *)
(* and the tasks interleave at their await points                          *)
(***************************************************************************)
\* at most this many requests are in the pipeline at once
MaxConcurrent == 2

ConcurrentSlots == 1..MaxConcurrent

ConcurrentStores == {(STR_k1 :> Alice) @@ (STR_k2 :> Bob)}

ConcurrentInventories ==
    {<<GetTimeTool, MockTool(STR_test_tool, STR_MockDescription)>>}

ConcurrentHeaderMaps ==
    {EmptyMap,
     STR_authorization :> (STR_BearerPrefix \o STR_k1),
     STR_authorization :> (STR_BearerPrefix \o STR_k2)}

ConcurrentBodies ==
    {[kind |-> "envelope", request |-> e] :
        e \in {McpRequest_Discover,
               McpRequest_Invoke(STR_get_current_time, None),
               McpRequest_Invoke(STR_test_tool, Some(JObj(STR_tz :> JStr(STR_UTC)))),
               McpRequest_Invoke(STR_bogus, Some(JObj(EmptyMap)))}}

InitConcurrent ==
    /\ InitApp(ConcurrentStores, ConcurrentInventories, ConcurrentSlots)
    /\ ClassifierIdle
    /\ ValidatorIdle

NextConcurrent ==
    \/ \E r \in DOMAIN pc : Arrive(r, ConcurrentHeaderMaps, ConcurrentBodies)
    \/ \E r \in DOMAIN pc : Route(r)
    \/ \E r \in DOMAIN pc : AuthMiddleware_call(r)
    \/ \E r \in DOMAIN pc : Extract(r)
    \/ \E r \in DOMAIN pc : Discover(r)
    \/ \E r \in DOMAIN pc : InvokeNotFound(r)
    \/ \E r \in DOMAIN pc : InvokeCall(r)
    \/ \E r \in DOMAIN pc : InvokeReturn(r)
    \/ \E r \in DOMAIN pc : Health(r)
    \/ \E r \in DOMAIN pc : Respond(r)

SpecConcurrent == InitConcurrent /\ [][NextConcurrent]_vars

(***************************************************************************)
(* Properties of the request pipeline                                      *)
(***************************************************************************)
\* the requests to POST /mcp that are in the pipeline
IsMcp(r) == req[r].some /\ req[r].v.path = "/mcp"

\* the authentication layer has run for the request
PastGate(r) == pc[r] \in {"inner", "handler", "awaiting", "done"}

HasAuthHeader(r) == STR_authorization \in DOMAIN req[r].v.headers

AuthHeader(r) == req[r].v.headers[STR_authorization]

\* the header value can be read as text
Readable(bytes) == \A i \in 1..Len(bytes) : bytes[i] # "0xFF"

\* the header value begins with the seven characters of "Bearer "
BeginsWithBearer(bytes) ==
    /\ Len(bytes) >= 7
    /\ SubSeq(bytes, 1, 7) = <<"B", "e", "a", "r", "e", "r", " ">>

\* the header value is text of the form Bearer <token>
IsBearer(r) == HasAuthHeader(r) /\ Readable(AuthHeader(r)) /\ BeginsWithBearer(AuthHeader(r))

TokenOf(r) == SubSeq(AuthHeader(r), 8, Len(AuthHeader(r)))

\* the layer rejected the request
AuthRejected(r) ==
    IsMcp(r) /\ PastGate(r) /\ ~authenticate(req[r].v.headers, credentials).result.ok

\* the steps that lie behind the authentication layer
InnerSteps ==
    {"inner.call", "Json::from_request", "discover", "tool_registry.get",
     "tool_func", "validate_tool_args", "work"}

\* the body of the 401 response with the given message and nothing else
AuthErrorBody(message) ==
    JObj((STR_jsonrpc :> JStr(<<"2", ".", "0">>))
         @@ (STR_error :> JObj((STR_code :> JInt(-32001))
                               @@ (STR_message :> JStr(message)))))

IsAuthError(response, message) ==
    response = [status |-> 401, kind |-> "json", json |-> AuthErrorBody(message)]

\* the members of a JSON response body
Body(r) == resp[r].v.json.o

HasJsonBody(r) == resp[r].some /\ resp[r].v.kind = "json"

\* C1: authentication is the first step of every request to /mcp, and a
\* request it rejects, whatever its body, ends there: the inner service is
\* not called, nothing is extracted, looked up or executed, and the response
\* is the 401 envelope with code -32001
C1_AuthGateBeforeDispatch ==
    \A r \in DOMAIN pc :
        /\ (IsMcp(r) /\ log[r] # <<>>) => log[r][1] = "authenticate"
        /\ AuthRejected(r) =>
              /\ pc[r] = "done"
              /\ \A i \in 1..Len(log[r]) : log[r][i] \notin InnerSteps
              /\ extensions[r] = None
              /\ payload[r] = None
              /\ calls[r] = <<>>
              /\ returned[r] = None
              /\ \E m \in {MSG_MissingToken, MSG_InvalidFormat, MSG_InvalidToken} :
                    IsAuthError(resp[r].v, m)

\* C1 witness: a rejected request whose body is a well-formed invoke of a
\* registered tool has been answered
C1_Witness ==
    \E r \in DOMAIN pc :
        /\ AuthRejected(r)
        /\ resp[r].some
        /\ req[r].v.body.kind = "envelope"
        /\ req[r].v.body.request.method = "invoke"
        /\ req[r].v.body.request.tool_name \in DOMAIN tool_registry

\* C2: for a header Bearer <token>, authentication succeeds exactly when the
\* token is a key of the store; the identity attached to the request and
\* handed to the executor is then the credential stored under the token, and
\* otherwise the response is 401, -32001, "Invalid or expired API key"
C2_BearerTokenLookup ==
    \A r \in DOMAIN pc :
        (IsMcp(r) /\ PastGate(r) /\ IsBearer(r)) =>
            IF TokenOf(r) \in DOMAIN credentials
            THEN /\ extensions[r] = Some([credentials |-> credentials[TokenOf(r)]])
                 /\ \A i \in 1..Len(calls[r]) :
                        calls[r][i].user = [credentials |-> credentials[TokenOf(r)]]
                 /\ resp[r].some => resp[r].v.status # 401
            ELSE /\ extensions[r] = None
                 /\ calls[r] = <<>>
                 /\ resp[r].some
                 /\ IsAuthError(resp[r].v, MSG_InvalidToken)

\* C2 witness: the executor has been called with the identity of the second
\* user of the store, external keys included
C2_Witness ==
    \E r \in DOMAIN pc :
        /\ IsMcp(r) /\ IsBearer(r)
        /\ TokenOf(r) = STR_k2
        /\ calls[r] # <<>>
        /\ calls[r][1].user.credentials.username = STR_bob
        /\ DOMAIN calls[r][1].user.credentials.external_keys = {STR_postgres_url}

\* C3: a header that is present but does not begin with "Bearer ", or cannot
\* be read as text, is answered as InvalidFormat and the store is not consulted
C3_PresentHeaderIsInvalidFormat ==
    \A r \in DOMAIN pc :
        (/\ IsMcp(r) /\ PastGate(r)
         /\ HasAuthHeader(r)
         /\ (~Readable(AuthHeader(r)) \/ ~BeginsWithBearer(AuthHeader(r)))) =>
            /\ resp[r].some
            /\ IsAuthError(resp[r].v, MSG_InvalidFormat)
            /\ \A i \in 1..Len(log[r]) : log[r][i] # "store.get"

\* the message fixed for each kind of authentication failure
FixedMessage(kind) ==
    CASE kind = "MissingToken" -> MSG_MissingToken
      [] kind = "InvalidFormat" -> MSG_InvalidFormat
      [] kind = "InvalidToken" -> MSG_InvalidToken

\* C4: a request without an authorization header is answered with
\* "Missing Authorization header", and the response to every authentication
\* failure is status 401 with exactly jsonrpc "2.0" and an error of code
\* -32001 and the message of its kind: no result, no data
C4_AuthErrorResponses ==
    \A r \in DOMAIN pc :
        /\ (IsMcp(r) /\ PastGate(r) /\ ~HasAuthHeader(r)) =>
              resp[r].some /\ IsAuthError(resp[r].v, MSG_MissingToken)
        /\ AuthRejected(r) =>
              /\ resp[r].some
              /\ IsAuthError(resp[r].v,
                    FixedMessage(authenticate(req[r].v.headers, credentials).result.e))

\* C4 witness: each of the three kinds has been answered; here the one of a
\* malformed header against a store that holds users
C4_Witness ==
    \E r \in DOMAIN pc :
        /\ AuthRejected(r)
        /\ resp[r].some
        /\ DOMAIN credentials # {}
        /\ HasAuthHeader(r)
        /\ AuthHeader(r) = STR_Basic \o STR_k1
        /\ resp[r].v.json.o[STR_error].o[STR_message] = JStr(MSG_InvalidFormat)

\* C5: the response to a request to /mcp has status 401 exactly when the
\* authentication failed, and every request the dispatcher handled is
\* answered with status 200
C5_StatusSplit ==
    \A r \in DOMAIN pc :
        (IsMcp(r) /\ resp[r].some) =>
            /\ (resp[r].v.status = 401) <=> AuthRejected(r)
            /\ payload[r].some => resp[r].v.status = 200

\* C5 witness: a failure of the executor has been answered with status 200
C5_Witness ==
    \E r \in DOMAIN pc :
        /\ IsMcp(r)
        /\ returned[r].some /\ ~returned[r].v.ok
        /\ resp[r].some
        /\ resp[r].v.status = 200
        /\ STR_error \in DOMAIN Body(r)

\* C6: every envelope, from the dispatcher or from the authentication layer,
\* has jsonrpc "2.0" and exactly one of result and error; the other member is
\* left out, not written as null; an error is always an object, and a result
\* is null only if that is the value the executor returned
C6_ExactlyOneOfResultAndError ==
    \A r \in DOMAIN pc :
        (IsMcp(r) /\ HasJsonBody(r)) =>
            /\ \/ DOMAIN Body(r) = {STR_jsonrpc, STR_result}
               \/ DOMAIN Body(r) = {STR_jsonrpc, STR_error}
            /\ Body(r)[STR_jsonrpc] = JStr(<<"2", ".", "0">>)
            /\ STR_error \in DOMAIN Body(r) =>
                  /\ Body(r)[STR_error].t = "object"
                  /\ {STR_code, STR_message} \subseteq DOMAIN Body(r)[STR_error].o
            /\ (STR_result \in DOMAIN Body(r) /\ Body(r)[STR_result] = JNull) =>
                  returned[r] = Some(Ok(JNull))

\* C6 witness: a success envelope and, in the same run of the program, the
\* state of an answered invoke
C6_Witness ==
    \E r \in DOMAIN pc :
        /\ IsMcp(r) /\ HasJsonBody(r)
        /\ payload[r].some /\ payload[r].v.method = "invoke"
        /\ DOMAIN Body(r) = {STR_jsonrpc, STR_result}

\* the names of the registered tools, in the order of registration
RegisteredNames == [i \in 1..Len(tool_definitions) |-> tool_definitions[i].name]

\* the request is an invoke of a name that is not registered and is answered
UnknownToolAnswered(r) ==
    /\ IsMcp(r)
    /\ pc[r] = "done"
    /\ payload[r].some
    /\ payload[r].v.method = "invoke"
    /\ \A i \in 1..Len(tool_definitions) :
          tool_definitions[i].name # payload[r].v.tool_name

\* C7: an invoke of a name that is not registered, compared exactly, is
\* answered with status 200, code -32601, the message Tool '<name>' not found
\* and all registered names in registration order; nothing is validated or
\* executed
C7_UnknownTool ==
    \A r \in DOMAIN pc :
        UnknownToolAnswered(r) =>
            /\ resp[r].v.status = 200
            /\ DOMAIN Body(r) = {STR_jsonrpc, STR_error}
            /\ Body(r)[STR_error] =
                  JObj((STR_code :> JInt(-32601))
                       @@ (STR_message :>
                              JStr(<<"T", "o", "o", "l", " ", "'">>
                                   \o payload[r].v.tool_name
                                   \o <<"'", " ", "n", "o", "t", " ", "f", "o", "u", "n", "d">>))
                       @@ (STR_data :>
                              JObj(STR_available_tools :>
                                      JArr([i \in 1..Len(RegisteredNames) |->
                                               JStr(RegisteredNames[i])]))))
            /\ calls[r] = <<>>
            /\ returned[r] = None
            /\ \A i \in 1..Len(log[r]) :
                  log[r][i] \notin {"tool_func", "validate_tool_args", "work"}

\* C7 witness: the name differs from a registered one only in letter case,
\* and two tools are registered
C7_Witness ==
    \E r \in DOMAIN pc :
        /\ UnknownToolAnswered(r)
        /\ payload[r].v.tool_name = STR_Get_Current_Time
        /\ Len(tool_definitions) = 2

\* C9: a value returned by the executor is the result of the envelope,
\* unchanged; a failure with message m is answered with an error whose
\* message is "Invalid parameters: " or "Tool execution error: " and then m
C9_OutcomePassedThrough ==
    \A r \in DOMAIN pc :
        (returned[r].some /\ resp[r].some) =>
            IF returned[r].v.ok
            THEN resp[r].v.json =
                    JObj((STR_result :> returned[r].v.v)
                         @@ (STR_jsonrpc :> JStr(<<"2", ".", "0">>)))
            ELSE /\ DOMAIN Body(r) = {STR_jsonrpc, STR_error}
                 /\ DOMAIN Body(r)[STR_error].o = {STR_code, STR_message}
                 /\ \/ /\ Body(r)[STR_error].o[STR_code] = JInt(-32002)
                       /\ Body(r)[STR_error].o[STR_message] =
                             JStr(STR_InvalidParameters \o <<":", " ">> \o returned[r].v.e)
                    \/ /\ Body(r)[STR_error].o[STR_code] = JInt(-32003)
                       /\ Body(r)[STR_error].o[STR_message] =
                             JStr(STR_ToolExecutionError \o <<":", " ">> \o returned[r].v.e)

\* C9 witness: a failure that is no validation failure has been answered
C9_Witness ==
    \E r \in DOMAIN pc :
        /\ returned[r] = Some(Err(MSG_DatabaseConnectionFailed))
        /\ resp[r].some
        /\ Body(r)[STR_error].o[STR_code] = JInt(-32003)

\* the arguments satisfy the schema of GetTimeTool: no properties, nothing
\* required, no additional properties
SatisfiesGetTimeSchema(args) ==
    \/ ~args.some
    \/ args.v.t = "object" /\ DOMAIN args.v.o = {}

\* the arguments satisfy the declared schema of the tool, in whatever order
\* the keys are visited
SatisfiesSchema(tool, args) ==
    \A keys \in KeyOrders(ArgKeys(args)) :
        validate_tool_args(McpTool_parameters_schema(tool), args, keys).ok

Position(steps, step) == {i \in 1..Len(steps) : steps[i] = step}

Occurs(kw, m) ==
    \E i \in 1..Len(m) :
        /\ i + Len(kw) - 1 <= Len(m)
        /\ \A k \in 1..Len(kw) : m[i + k - 1] = kw[k]

NineKeywords ==
    {KW_parameter, KW_required, KW_Unexpected, KW_Missing, KW_must_be,
     KW_exceeds_maximum, KW_at_least, KW_characters_long, KW_type}

\* C10: a failure message is answered with code -32002 and
\* "Invalid parameters: " before it exactly when one of the nine keywords
\* occurs in it in that letter case, and with code -32003 and
\* "Tool execution error: " before it otherwise
C10_ClassifierKeywords ==
    classified.some =>
        IF \E kw \in NineKeywords : Occurs(kw, error_msg)
        THEN classified.v =
                [result |-> None,
                 error |-> Some([code |-> -32002,
                                 message |-> STR_InvalidParameters \o <<":", " ">>
                                             \o error_msg,
                                 data |-> None]),
                 jsonrpc |-> <<"2", ".", "0">>]
        ELSE classified.v =
                [result |-> None,
                 error |-> Some([code |-> -32003,
                                 message |-> STR_ToolExecutionError \o <<":", " ">>
                                             \o error_msg,
                                 data |-> None]),
                 jsonrpc |-> <<"2", ".", "0">>]

\* C10 witness: the keyword "type", put together from two pieces, is found
C10_Witness ==
    /\ classified.some
    /\ error_msg = FR_typ \o FR_e
    /\ classified.v.error.v.code = -32002

(***************************************************************************)
(* Discovery and the health endpoint                                       *)
(***************************************************************************)
\* the request is a discover that has been answered
DiscoverAnswered(r) ==
    /\ IsMcp(r)
    /\ pc[r] = "done"
    /\ payload[r].some
    /\ payload[r].v.method = "discover"

\* the descriptor of each tool of the inventory, in the order of the inventory
ExpectedTools ==
    JArr([i \in 1..Len(tool_entries) |->
            JObj((STR_name :> JStr(McpTool_name(tool_entries[i])))
                 @@ (STR_description :> JStr(McpTool_description(tool_entries[i])))
                 @@ (STR_parameters :> McpTool_parameters_schema(tool_entries[i])))])

\* C11: every discover is answered with status 200 and result.tools equal to
\* the descriptors of all registered tools in registration order, whoever
\* asks and whatever was served before or is being served beside it: any two
\* answers to discover are equal
C11_DiscoverListsRegistry ==
    \A r \in DOMAIN pc :
        DiscoverAnswered(r) =>
            /\ resp[r].v.status = 200
            /\ DOMAIN Body(r) = {STR_jsonrpc, STR_result}
            /\ Body(r)[STR_result] = JObj(STR_tools :> ExpectedTools)
            /\ \A q \in DOMAIN pc : DiscoverAnswered(q) => resp[q] = resp[r]

\* C11 witness: two users, one of them without external keys, hold their
\* answers to discover at the same time, two tools being registered
C11_Witness ==
    \E r, q \in DOMAIN pc :
        /\ DiscoverAnswered(r) /\ DiscoverAnswered(q)
        /\ extensions[r].v.credentials.username = STR_alice
        /\ extensions[q].v.credentials.username = STR_bob
        /\ Len(tool_definitions) = 2

\* the request is a GET /health
IsHealth(r) == req[r].some /\ req[r].v.path = "/health"

\* C12: a GET /health never enters the authentication layer or anything
\* behind it, whatever its authorization header, and is answered with
\* status 200 and the text OK
C12_HealthBypassesAuth ==
    \A r \in DOMAIN pc :
        IsHealth(r) =>
            /\ pc[r] \in {"router", "health", "done"}
            /\ \A i \in 1..Len(log[r]) : log[r][i] = "health_check"
            /\ extensions[r] = None
            /\ resp[r].some =>
                  resp[r].v = [status |-> 200, kind |-> "text",
                               text |-> <<"O", "K">>]

\* C12 witness: a GET /health that carries a token the store does not hold
\* has been answered
C12_Witness ==
    \E r \in DOMAIN pc :
        /\ IsHealth(r)
        /\ resp[r].some
        /\ HasAuthHeader(r)
        /\ AuthHeader(r) = STR_BearerPrefix \o STR_k3
        /\ DOMAIN credentials # {}

(***************************************************************************)
(* Properties of validate_tool_args                                        *)
(***************************************************************************)
\* the member of the schema under the key, if the schema has one
SchemaMember(key) ==
    IF key \in DOMAIN given_schema.o THEN Some(given_schema.o[key]) ELSE None

\* the names the schema lists as required, in declared order
DeclaredRequired ==
    IF SchemaMember(STR_required).some /\ SchemaMember(STR_required).v.t = "array"
    THEN LET names == SelectSeq(SchemaMember(STR_required).v.a,
                                LAMBDA v : v.t = "string")
         IN  [i \in 1..Len(names) |-> names[i].s]
    ELSE <<>>

\* the names the schema declares properties for
DeclaredProperties ==
    IF SchemaMember(STR_properties).some /\ SchemaMember(STR_properties).v.t = "object"
    THEN DOMAIN SchemaMember(STR_properties).v.o
    ELSE {}

RECURSIVE CommaJoined(_)
\* the names separated by a comma and a space
CommaJoined(names) ==
    IF names = <<>> THEN <<>>
    ELSE IF Len(names) = 1 THEN names[1]
    ELSE names[1] \o <<",", " ">> \o CommaJoined(Tail(names))

\* the arguments are a JSON object
ArgsAreObject == given_args.some /\ given_args.v.t = "object"

\* the keys of the arguments for which the schema declares no property
UndeclaredKeys == ArgKeys(given_args) \ DeclaredProperties

\* the required names the arguments do not hold
MissingFields == {f \in {DeclaredRequired[i] : i \in 1..Len(DeclaredRequired)} :
                    f \notin ArgKeys(given_args)}

\* the message m begins with p
Begins(m, p) == Len(m) >= Len(p) /\ SubSeq(m, 1, Len(p)) = p

Failed(message) == validation.v = [ok |-> FALSE, e |-> message]

Succeeded == validation.v.ok

\* C13: absent arguments fail with "Missing required arguments: " and the
\* required names joined by ", " in declared order when names are required,
\* and succeed otherwise, whatever else the schema says; arguments that are
\* present and no object fail with "Arguments must be an object"
C13_AbsentOrNonObjectArguments ==
    validation.some =>
        /\ (~given_args.some /\ DeclaredRequired # <<>>) =>
              Failed(MSG_MissingRequiredArguments \o CommaJoined(DeclaredRequired))
        /\ (~given_args.some /\ DeclaredRequired = <<>>) => Succeeded
        /\ (given_args.some /\ given_args.v.t # "object") =>
              Failed(MSG_ArgumentsMustBeAnObject)

\* C13 witness: two names are required and the arguments are absent
C13_Witness ==
    /\ validation.some
    /\ ~given_args.some
    /\ DeclaredRequired = <<STR_tz, STR_n>>
    /\ Failed(MSG_MissingRequiredArguments \o <<"t", "z", ",", " ", "n">>)

\* C14: with additionalProperties false, whether or not the schema declares
\* properties, an arguments object with exactly one key k outside the
\* declared properties fails with "Unexpected parameter: 'k'"; with
\* additionalProperties true or absent the key is not rejected
C14_UnexpectedKeyRejected ==
    (validation.some /\ ArgsAreObject /\ Cardinality(UndeclaredKeys) = 1) =>
        LET k == CHOOSE key \in UndeclaredKeys : TRUE
        IN  /\ SchemaMember(STR_additionalProperties) = Some(JBool(FALSE)) =>
                  Failed(MSG_UnexpectedParameter \o k \o <<"'">>)
            /\ SchemaMember(STR_additionalProperties) \in {None, Some(JBool(TRUE))} =>
                  (Succeeded \/ ~Begins(validation.v.e, MSG_UnexpectedParameter))

\* the unexpected-key check of the code applies: additionalProperties is
\* false, the schema declares a properties object and a key lies outside it
UnexpectedKeyCheckFails ==
    /\ SchemaMember(STR_additionalProperties) = Some(JBool(FALSE))
    /\ SchemaMember(STR_properties).some
    /\ SchemaMember(STR_properties).v.t = "object"
    /\ UndeclaredKeys # {}

\* C15 as stated: an arguments object that misses exactly one required field
\* f fails with "Missing required parameter: 'f'", whatever properties and
\* additionalProperties are
C15_MissingRequiredField ==
    (validation.some /\ ArgsAreObject /\ Cardinality(MissingFields) = 1) =>
        Failed(MSG_MissingRequiredParameter
               \o (CHOOSE f \in MissingFields : TRUE) \o <<"'">>)

\* C15 amended: an arguments object that misses exactly one required field
\* f fails with "Missing required parameter: 'f'", unless the unexpected-key
\* check, which comes first, rejects one of its keys; then the failure is
\* "Unexpected parameter: 'k'" for such a key k
C15_MissingRequiredFieldUnlessUnexpected ==
    (validation.some /\ ArgsAreObject /\ Cardinality(MissingFields) = 1) =>
        IF UnexpectedKeyCheckFails
        THEN \E k \in UndeclaredKeys :
                Failed(MSG_UnexpectedParameter \o k \o <<"'">>)
        ELSE Failed(MSG_MissingRequiredParameter
                    \o (CHOOSE f \in MissingFields : TRUE) \o <<"'">>)

\* C15 witness: the required field is missing and the one key present holds
\* a value of the wrong type
C15_Witness ==
    /\ validation.some
    /\ given_args = Some(JObj(STR_n :> JStr(STR_UTC)))
    /\ DeclaredRequired = <<STR_tz, STR_n>>
    /\ DeclaredProperties = {STR_n, STR_tz}
    /\ Failed(MSG_MissingRequiredParameter \o <<"t", "z", "'">>)

\* a key of the arguments holds a value of another type than declared
WronglyTyped ==
    \E k \in ArgKeys(given_args) \cap DeclaredProperties :
        LET property == SchemaMember(STR_properties).v.o[k].o
            value == given_args.v.o[k]
        IN  /\ STR_type \in DOMAIN property
            /\ \/ property[STR_type].s = STR_integer /\ value.t # "int"
               \/ property[STR_type].s = STR_string /\ value.t # "string"

\* C20: the unexpected-key check comes before the required-fields check and
\* that before the value checks: arguments with a key outside the declared
\* properties under additionalProperties false that also miss a required
\* field fail with "Unexpected parameter", and arguments without such a key
\* that miss a required field and hold a wrongly typed value fail with
\* "Missing required parameter"
C20_ValidationOrder ==
    (validation.some /\ ArgsAreObject /\ MissingFields # {}) =>
        /\ (/\ SchemaMember(STR_additionalProperties) = Some(JBool(FALSE))
            /\ UndeclaredKeys # {}) =>
              (~Succeeded /\ Begins(validation.v.e, MSG_UnexpectedParameter))
        /\ (/\ ~(/\ SchemaMember(STR_additionalProperties) = Some(JBool(FALSE))
                  /\ UndeclaredKeys # {})
            /\ WronglyTyped) =>
              (~Succeeded /\ Begins(validation.v.e, MSG_MissingRequiredParameter))

(***************************************************************************)
(* Properties of validate_value                                            *)
(***************************************************************************)
\* the sub-schema declares a type by name
DeclaresType ==
    /\ given_schema.t = "object"
    /\ STR_type \in DOMAIN given_schema.o
    /\ given_schema.o[STR_type].t = "string"

DeclaredType == given_schema.o[STR_type].s

\* the pairs of a declared type and a value the type check lets pass
Accepts(type, value) ==
    \/ type = <<"s", "t", "r", "i", "n", "g">> /\ value.t = "string"
    \/ type = <<"i", "n", "t", "e", "g", "e", "r">> /\ value.t \in {"int", "big"}
    \/ type = <<"n", "u", "m", "b", "e", "r">> /\ value.t \in {"int", "big", "float"}
    \/ type = <<"b", "o", "o", "l", "e", "a", "n">> /\ value.t = "bool"
    \/ type = <<"a", "r", "r", "a", "y">> /\ value.t = "array"
    \/ type = <<"o", "b", "j", "e", "c", "t">> /\ value.t = "object"
    \/ type = <<"n", "u", "l", "l">> /\ value.t = "null"

\* the name the failure message gives to the kind of the value
KindName(value) ==
    CASE value.t = "string" -> <<"s", "t", "r", "i", "n", "g">>
      [] value.t = "int" -> <<"i", "n", "t", "e", "g", "e", "r">>
      [] value.t = "big" -> <<"i", "n", "t", "e", "g", "e", "r">>
      [] value.t = "float" -> <<"n", "u", "m", "b", "e", "r">>
      [] value.t = "bool" -> <<"b", "o", "o", "l", "e", "a", "n">>
      [] value.t = "array" -> <<"a", "r", "r", "a", "y">>
      [] value.t = "object" -> <<"o", "b", "j", "e", "c", "t">>
      [] value.t = "null" -> <<"n", "u", "l", "l">>

\* C16: against a sub-schema that declares a type and nothing else, a value
\* passes exactly when it is of that type, a number held as an integer being
\* both integer and number and a number held as a float being number only;
\* every other pair fails with
\* "Parameter '<name>' must be of type '<expected>', got '<actual>'"
C16_TypeCheck ==
    (validation.some /\ DeclaresType /\ DOMAIN given_schema.o = {STR_type}) =>
        IF Accepts(DeclaredType, given_value)
        THEN Succeeded
        ELSE Failed(MSG_Parameter \o given_name \o MSG_MustBeOfType \o DeclaredType
                    \o MSG_Got \o KindName(given_value) \o <<"'">>)

\* C16 witness: an integer has passed for number, as the other cases have
\* been decided in other runs
C16_Witness ==
    /\ validation.some
    /\ DeclaresType
    /\ DeclaredType = STR_number
    /\ given_value = JInt(1)
    /\ Succeeded

(***************************************************************************)
(* Properties of the registry build                                        *)
(***************************************************************************)
\* the positions of the inventory whose tool reports a name reported before
Duplicates ==
    {j \in 1..Len(tool_entries) :
        \E i \in 1..(j - 1) :
            McpTool_name(tool_entries[i]) = McpTool_name(tool_entries[j])}

\* the descriptor the tool supplies
DescriptorOf(tool) ==
    [name |-> McpTool_name(tool),
     description |-> McpTool_description(tool),
     parameters |-> McpTool_parameters_schema(tool)]

\* C17: when two tools of the inventory report the same name the build
\* panics with a message that names the duplicate and no registry is
\* produced; otherwise the definitions are the descriptors of the tools in
\* order with pairwise distinct names, the keys of the dispatch table are
\* exactly these names, as many as there are definitions, and each name
\* dispatches to the tool that supplied the descriptor
C17_UniqueNames ==
    pc # Fresh({"main"}, "create_app") =>
        IF Duplicates # {}
        THEN /\ pc = Fresh({"main"}, "panicked")
             /\ \E j \in Duplicates :
                   /\ \A i \in Duplicates : j <= i
                   /\ panicked = Some(MSG_DuplicateToolName
                                      \o McpTool_name(tool_entries[j])
                                      \o MSG_EachToolUnique)
             /\ tool_registry = EmptyMap
             /\ tool_definitions = <<>>
        ELSE /\ pc = Fresh({"main"}, "serving")
             /\ panicked = None
             /\ Len(tool_definitions) = Len(tool_entries)
             /\ \A i, j \in 1..Len(tool_definitions) :
                   i # j => tool_definitions[i].name # tool_definitions[j].name
             /\ DOMAIN tool_registry =
                   {tool_definitions[i].name : i \in 1..Len(tool_definitions)}
             /\ Cardinality(DOMAIN tool_registry) = Len(tool_definitions)
             /\ \A i \in 1..Len(tool_definitions) :
                   /\ tool_definitions[i] = DescriptorOf(tool_entries[i])
                   /\ tool_registry[tool_definitions[i].name] = tool_entries[i]

\* C17 witness: the third tool reports the name of the first and the build
\* has panicked
C17_Witness ==
    /\ pc = Fresh({"main"}, "panicked")
    /\ Len(tool_entries) = 3
    /\ tool_entries[1] = GetTimeTool
    /\ tool_entries[3] = MockTool(STR_get_current_time, STR_MockDescription)
    /\ Duplicates = {3}
    /\ panicked.some

(***************************************************************************)
(* Properties of requests served concurrently                              *)
(***************************************************************************)
\* C18: no step of any request, in any interleaving, changes the credential
\* store, the dispatch table or the descriptor list
C18_StoreAndRegistryNeverMutated ==
    [][/\ credentials' = credentials
       /\ tool_registry' = tool_registry
       /\ tool_definitions' = tool_definitions]_vars

\* C18 witness: a request has been rejected by the layer while the executor
\* of another has returned
C18_Witness ==
    \E r, q \in DOMAIN pc :
        /\ AuthRejected(r) /\ resp[r].some
        /\ IsMcp(q) /\ returned[q].some
        /\ credentials = (STR_k1 :> Alice) @@ (STR_k2 :> Bob)
        /\ Len(tool_definitions) = 2

\* the responses the request would receive if it were served alone
AloneResponses(request) ==
    IF request.path = "/health" THEN {[status |-> 200, kind |-> "text",
                                       text |-> <<"O", "K">>]}
    ELSE LET auth == authenticate(request.headers, credentials).result
             user == [credentials |-> auth.v]
             envelope == request.body.request
         IN  IF ~auth.ok THEN {AuthError_into_response(auth.e)}
             ELSE IF envelope.method = "discover"
             THEN {Json_into_response(DiscoverResponse(tool_definitions))}
             ELSE IF envelope.tool_name \notin DOMAIN tool_registry
             THEN {Json_into_response(
                      NotFoundResponse(envelope.tool_name, tool_definitions))}
             ELSE {Json_into_response(InvokeResponse(outcome.result)) :
                      outcome \in McpTool_execute(tool_registry[envelope.tool_name],
                                                  envelope.arguments, user)}

\* C19: whatever else is being served, what a request carries through the
\* pipeline is its own: the identity is the credential stored under its own
\* token, the envelope and the arguments handed to the executor are those of
\* its own body, and its response is one it would receive if served alone
C19_RequestsIsolated ==
    \A r \in DOMAIN pc :
        /\ extensions[r].some =>
              /\ IsBearer(r)
              /\ extensions[r].v = [credentials |-> credentials[TokenOf(r)]]
        /\ payload[r].some => payload[r].v = req[r].v.body.request
        /\ \A i \in 1..Len(calls[r]) :
              /\ calls[r][i].user = [credentials |-> credentials[TokenOf(r)]]
              /\ calls[r][i].args = req[r].v.body.request.arguments
              /\ McpTool_name(calls[r][i].tool) = req[r].v.body.request.tool_name
        /\ resp[r].some => resp[r].v \in AloneResponses(req[r].v)

\* C19 witness: the executors of two requests of different users have been
\* called and neither request is answered yet
C19_Witness ==
    \E r, q \in DOMAIN pc :
        /\ pc[r] = "awaiting" /\ pc[q] = "awaiting"
        /\ calls[r][1].user.credentials.username = STR_alice
        /\ calls[q][1].user.credentials.username = STR_bob
        /\ calls[r][1].args # calls[q][1].args

(***************************************************************************)
(* The required check, the checks of a value, credential loading           *)
(***************************************************************************)
\* the first name in the declared required order that the arguments do not
\* hold as a key
FirstMissing ==
    DeclaredRequired[CHOOSE i \in 1..Len(DeclaredRequired) :
                        /\ DeclaredRequired[i] \notin ArgKeys(given_args)
                        /\ \A j \in 1..(i - 1) :
                              DeclaredRequired[j] \in ArgKeys(given_args)]

\* C21: when the arguments are an object that passes the unexpected-key
\* check and lacks required names, validation fails with
\* "Missing required parameter: '<name>'" for the first lacking name in the
\* declared required order, in whatever order the arguments yield their keys;
\* a name counts as held when it is a key, whatever its value, so that with
\* every required name a key (be it with null) no such message is produced
C21_FirstMissingInDeclaredOrder ==
    (validation.some /\ ArgsAreObject /\ ~UnexpectedKeyCheckFails) =>
        IF MissingFields # {}
        THEN Failed(MSG_MissingRequiredParameter \o FirstMissing \o <<"'">>)
        ELSE Succeeded \/ ~Begins(validation.v.e, MSG_MissingRequiredParameter)

\* C21 witness: of the required names tz, n, test_param the arguments hold tz
\* alone, with null, and n has been reported
C21_Witness ==
    /\ validation.some
    /\ given_args = Some(JObj(STR_tz :> JNull))
    /\ DeclaredRequired = <<STR_tz, STR_n, STR_test_param>>
    /\ Failed(MSG_MissingRequiredParameter \o STR_n \o <<"'">>)

\* the member of the sub-schema under the keyword
Keyword(key) ==
    IF given_schema.t = "object" /\ key \in DOMAIN given_schema.o
    THEN Some(given_schema.o[key])
    ELSE None

\* the bound a length keyword sets: a whole number that is not negative
LengthBound(key) ==
    IF Keyword(key).some /\ Keyword(key).v.t = "int" /\ Keyword(key).v.n >= 0
    THEN Some(Keyword(key).v.n)
    ELSE None

\* the length of a string in encoded units (bytes of UTF-8)
Encoded(s) == Len(s) + Cardinality({i \in 1..Len(s) : s[i] = "U+00E9"})

IsString == given_value.t = "string"

IsNumeric == given_value.t \in {"int", "big", "float"}

IsArray == given_value.t = "array"

TypeMismatch == DeclaresType /\ ~Accepts(DeclaredType, given_value)

TooShort ==
    /\ IsString /\ LengthBound(STR_minLength).some
    /\ Encoded(given_value.s) < LengthBound(STR_minLength).v

TooLong ==
    /\ IsString /\ LengthBound(STR_maxLength).some
    /\ Encoded(given_value.s) > LengthBound(STR_maxLength).v

TooMany ==
    /\ IsArray /\ LengthBound(STR_maxItems).some
    /\ Len(given_value.a) > LengthBound(STR_maxItems).v

TypeMessage ==
    MSG_Parameter \o given_name \o MSG_MustBeOfType \o DeclaredType
    \o MSG_Got \o KindName(given_value) \o <<"'">>

MinLengthMessage ==
    MSG_Parameter \o given_name \o MSG_MustBeAtLeast
    \o fmt_u64(LengthBound(STR_minLength).v) \o MSG_CharactersLong

MaxLengthMessage ==
    MSG_Parameter \o given_name \o MSG_ExceedsMaximumLength
    \o fmt_u64(LengthBound(STR_maxLength).v)

MaxItemsMessage ==
    MSG_Parameter \o given_name \o MSG_ExceedsMaximumArrayLength
    \o fmt_u64(LengthBound(STR_maxItems).v)

PatternMessage == MSG_Parameter \o given_name \o MSG_DoesNotMatch

\* a number as it is written: k * 2^53 + h / 2
Written(v) ==
    CASE v.t = "int" -> [k |-> 0, h |-> 2 * v.n]
      [] v.t = "float" -> [k |-> 0, h |-> v.h]
      [] v.t = "big" -> [k |-> 1, h |-> 2 * v.d]

\* a number as the nearest double: above 2^53 a double holds the even
\* integers, and of two equally near ones the multiple of four is taken
Nearest(v) ==
    IF v.t = "big" /\ v.d % 2 = 1
    THEN [k |-> 1, h |-> 2 * (CHOOSE e \in {v.d - 1, v.d + 1} : e % 4 = 0)]
    ELSE Written(v)

Less(a, b) == a.k < b.k \/ (a.k = b.k /\ a.h < b.h)

\* a number in decimal digits
Decimal(x) ==
    IF x.k = 1
    THEN <<"9", "0", "0", "7", "1", "9", "9", "2", "5", "4", "7", "4", "0", "9">>
         \o fmt_u64(92 + x.h \div 2)
    ELSE IF x.h < 0
    THEN <<"-">> \o fmt_u64((-x.h) \div 2) \o (IF (-x.h) % 2 = 1 THEN <<".", "5">> ELSE <<>>)
    ELSE fmt_u64(x.h \div 2) \o (IF x.h % 2 = 1 THEN <<".", "5">> ELSE <<>>)

\* the bound a numeric keyword sets
NumericBound(key) ==
    IF Keyword(key).some /\ Keyword(key).v.t \in {"int", "big", "float"}
    THEN Some(Keyword(key).v)
    ELSE None

\* the value and the numeric bounds are numbers a double holds as written
HeldAsWritten ==
    \A v \in {given_value}
             \cup {NumericBound(k).v : k \in {j \in {STR_minimum, STR_maximum} :
                                                 NumericBound(j).some}} :
        Nearest(v) = Written(v)

MinimumMessage(lo) == MSG_Parameter \o given_name \o MSG_MustBeAtLeast \o Decimal(lo)

MaximumMessage(hi) == MSG_Parameter \o given_name \o MSG_MustBeAtMost \o Decimal(hi)

\* C22: the checks of a value come in a fixed order and the first failure is
\* the one reported: a value of the wrong type gets the type message whatever
\* else it violates; a string that is too short gets the minLength message
\* even when it is too long or fails the pattern as well, a string that is
\* only too long gets the maxLength message even when it fails the pattern;
\* a number below the minimum gets the minimum message even when it is above
\* the maximum
C22_ChecksInFixedOrder ==
    validation.some =>
        /\ TypeMismatch => Failed(TypeMessage)
        /\ (~TypeMismatch /\ TooShort) => Failed(MinLengthMessage)
        /\ (~TypeMismatch /\ ~TooShort /\ TooLong) => Failed(MaxLengthMessage)
        /\ (~TypeMismatch /\ IsNumeric /\ HeldAsWritten
              /\ NumericBound(STR_minimum).some
              /\ Less(Written(given_value), Written(NumericBound(STR_minimum).v))) =>
                 Failed(MinimumMessage(Written(NumericBound(STR_minimum).v)))

\* C22 witness: a string that is too short and fails the pattern, declared
\* an integer, has been reported for its type
C22_Witness ==
    /\ validation.some
    /\ given_value = JStr(<<>>)
    /\ given_schema = JObj((STR_type :> JStr(STR_integer))
                           @@ (STR_minLength :> JInt(2))
                           @@ (STR_pattern :> JStr(<<"^", "a", "*">>)))
    /\ Failed(TypeMessage)

\* C23: the length bounds are inclusive and count encoded units: a string
\* of the declared type fails with "Parameter '<name>' must be at least <m>
\* characters long" exactly when its encoded length is below minLength m, one
\* that is not too short fails with "Parameter '<name>' exceeds maximum
\* length of <M>" exactly when its encoded length is above maxLength M, and
\* an array fails with "Parameter '<name>' exceeds maximum array length of
\* <K>" exactly when it holds more than maxItems K values; at a length equal
\* to the bound none of these failures is given
C23_LengthBoundsInclusive ==
    (validation.some /\ ~TypeMismatch) =>
        /\ IsString =>
              IF TooShort THEN Failed(MinLengthMessage)
              ELSE IF TooLong THEN Failed(MaxLengthMessage)
              ELSE Succeeded \/ Failed(PatternMessage)
        /\ IsArray =>
              IF TooMany THEN Failed(MaxItemsMessage) ELSE Succeeded

\* C23 witness: a string of one character that takes two encoded units has
\* passed a minLength and a maxLength of two
C23_Witness ==
    /\ validation.some
    /\ given_value = JStr(<<"U+00E9">>)
    /\ given_schema = JObj((STR_minLength :> JInt(2)) @@ (STR_maxLength :> JInt(2)))
    /\ Succeeded

\* the pattern is a string of the form ^<prefix>*
PrefixPattern ==
    /\ Keyword(STR_pattern).some
    /\ Keyword(STR_pattern).v.t = "string"
    /\ Len(Keyword(STR_pattern).v.s) >= 2
    /\ Head(Keyword(STR_pattern).v.s) = "^"
    /\ Keyword(STR_pattern).v.s[Len(Keyword(STR_pattern).v.s)] = "*"

\* what stands between the ^ and the * of the pattern
PatternPrefix ==
    SubSeq(Keyword(STR_pattern).v.s, 2, Len(Keyword(STR_pattern).v.s) - 1)

\* C24: a string that passes the type and length checks passes a pattern of
\* the form ^<prefix>* exactly when it starts with <prefix>, and fails with
\* "Parameter '<name>' does not match required pattern" otherwise; a pattern
\* of any other form lets every string pass
C24_PatternIsPrefixTest ==
    (validation.some /\ IsString /\ ~TypeMismatch /\ ~TooShort /\ ~TooLong) =>
        IF PrefixPattern /\ ~Begins(given_value.s, PatternPrefix)
        THEN Failed(PatternMessage)
        ELSE Succeeded

\* the prefix of the pattern neither begins with ^ nor ends with *
PlainPrefix ==
    \/ PatternPrefix = <<>>
    \/ Head(PatternPrefix) # "^" /\ PatternPrefix[Len(PatternPrefix)] # "*"

\* C24 for the prefixes on which the claim and the code agree
C24_PlainPrefixTest ==
    (validation.some /\ IsString /\ ~TypeMismatch /\ ~TooShort /\ ~TooLong
        /\ (PrefixPattern => PlainPrefix)) =>
        IF PrefixPattern /\ ~Begins(given_value.s, PatternPrefix)
        THEN Failed(PatternMessage)
        ELSE Succeeded

\* C25 as stated: a number of the declared type fails with "Parameter
\* '<name>' must be at least <lo>" exactly when it is below minimum lo, one
\* that is not below it fails with "Parameter '<name>' must be at most <hi>"
\* exactly when it is above maximum hi, and a number from lo to hi, the bounds
\* included, passes
C25_NumericBoundsInclusive ==
    (validation.some /\ IsNumeric /\ ~TypeMismatch) =>
        LET n == Written(given_value)
            lo == NumericBound(STR_minimum)
            hi == NumericBound(STR_maximum)
        IN  IF lo.some /\ Less(n, Written(lo.v))
            THEN Failed(MinimumMessage(Written(lo.v)))
            ELSE IF hi.some /\ Less(Written(hi.v), n)
            THEN Failed(MaximumMessage(Written(hi.v)))
            ELSE Succeeded

\* C25 amended: the same of the value and the bounds taken as the nearest
\* doubles, which is also how the bound is printed
C25_NumericBoundsAsDoubles ==
    (validation.some /\ IsNumeric /\ ~TypeMismatch) =>
        LET n == Nearest(given_value)
            lo == NumericBound(STR_minimum)
            hi == NumericBound(STR_maximum)
        IN  IF lo.some /\ Less(n, Nearest(lo.v))
            THEN Failed(MinimumMessage(Nearest(lo.v)))
            ELSE IF hi.some /\ Less(Nearest(hi.v), n)
            THEN Failed(MaximumMessage(Nearest(hi.v)))
            ELSE Succeeded

\* C25 witness: 2^53 + 1 has passed a maximum of 2^53, both being the same
\* double
C25_Witness ==
    /\ validation.some
    /\ given_value = JBig(1)
    /\ given_schema = JObj(STR_maximum :> JBig(0))
    /\ Succeeded

\* the number of times the executor has been called for the request
ExecutorCalls(r) == Cardinality({i \in 1..Len(log[r]) : log[r][i] = "tool_func"})

\* the request is one for which no executor may run
NothingToExecute(r) ==
    \/ IsHealth(r)
    \/ AuthRejected(r)
    \/ IsMcp(r) /\ payload[r].some /\ payload[r].v.method = "discover"
    \/ IsMcp(r) /\ payload[r].some /\ payload[r].v.method = "invoke"
          /\ payload[r].v.tool_name \notin {RegisteredNames[i] : i \in 1..Len(RegisteredNames)}

\* at any moment of a request: the executor has been called at most once and
\* not at all where nothing is to be executed, a response exists only once
\* the request is done, and a failure of the executor is answered by an error
\* envelope after that one call
C26_AtMostOnce ==
    \A r \in DOMAIN pc :
        /\ ExecutorCalls(r) <= 1
        /\ Len(calls[r]) = ExecutorCalls(r)
        /\ NothingToExecute(r) => ExecutorCalls(r) = 0
        /\ resp[r].some => pc[r] = "done"
        /\ (returned[r].some /\ ~returned[r].v.ok) =>
              /\ ExecutorCalls(r) = 1
              /\ STR_error \in DOMAIN Body(r)
              /\ STR_result \notin DOMAIN Body(r)

\* once a request has its response nothing more is done for it: the next
\* step of the request sends the response as it is
C26_ResponseIsTerminal ==
    \A r \in DOMAIN pc :
        resp[r].some =>
            \/ resp'[r] = resp[r] /\ log'[r] = log[r] /\ calls'[r] = calls[r]
            \/ pc'[r] = "idle" /\ ~resp'[r].some

\* C26: every request is answered, by one terminal response, with no second
\* attempt and no partial result: the executor is called at most once for an
\* invoke and never for discover, for a name that is not registered, or after
\* a failed authentication; a failure of the executor ends the request with
\* one error envelope
C26_OneTerminalResponse ==
    /\ []C26_AtMostOnce
    /\ [][C26_ResponseIsTerminal]_vars
    /\ \A r \in SingleSlot : (req[r].some ~> resp[r].some)

\* C26 witness: the executor has failed and the request is answered after
\* one call
C26_Witness ==
    \E r \in DOMAIN pc :
        /\ returned[r].some
        /\ ~returned[r].v.ok
        /\ resp[r].some
        /\ ExecutorCalls(r) = 1

\* the users of the credentials file
ConfiguredUsers == DOMAIN config.file.users

\* two users of the file have the same API key
SharedApiKey ==
    \E u, v \in ConfiguredUsers :
        u # v /\ config.file.users[u].api_key = config.file.users[v].api_key

\* C27: loading a file with no users, or with two users that share an API
\* key, returns an error and no store; loading any other file returns a
\* store with one entry per user, whose keys are the API keys and in which
\* the entry under key k holds k as its api_key, with the name of its user
\* and that user's external keys as the file gives them
C27_UniqueKeysOrFailure ==
    (loaded.some /\ config.file.kind = "parsed") =>
        IF ConfiguredUsers = {} \/ SharedApiKey
        THEN ~loaded.v.ok
        ELSE /\ loaded.v.ok
             /\ DOMAIN loaded.v.v = {config.file.users[u].api_key : u \in ConfiguredUsers}
             /\ Cardinality(DOMAIN loaded.v.v) = Cardinality(ConfiguredUsers)
             /\ \A u \in ConfiguredUsers :
                   loaded.v.v[config.file.users[u].api_key] =
                      [username |-> u,
                       api_key |-> config.file.users[u].api_key,
                       external_keys |-> config.file.users[u].external_keys]
             /\ credentials = loaded.v.v

\* C27 witness: two users are loaded, bob under the key "alice", with his
\* external key
C27_Witness ==
    /\ loaded.some
    /\ loaded.v.ok
    /\ DOMAIN loaded.v.v = {STR_k1, STR_alice}
    /\ loaded.v.v[STR_alice].username = STR_bob
    /\ loaded.v.v[STR_alice].external_keys = (STR_postgres_url :> STR_PostgresUrlValue)
    /\ loaded.v.v[STR_k1].username = STR_alice

\* the kinds of failure the validator has: what each message begins with
ValidatorFailureKinds ==
    {MSG_MissingRequiredArguments, MSG_ArgumentsMustBeAnObject,
     MSG_UnexpectedParameter, MSG_MissingRequiredParameter}
    \cup {MSG_Parameter \o k \o t :
            k \in ValidatorNames,
            t \in {MSG_MustBeOfType, MSG_MustBeAtLeast, MSG_ExceedsMaximumLength,
                   MSG_DoesNotMatch, MSG_MustBeAtMost, MSG_ExceedsMaximumArrayLength}}

\* C28: every failure of the validator, of whatever kind and for whatever
\* parameter, is answered with code -32002 and "Invalid parameters: " before
\* its message, never with -32003
C28_ValidationFailuresAreInvalidParams ==
    /\ (validation.some /\ ~validation.v.ok) =>
          \E kind \in ValidatorFailureKinds : Begins(validation.v.e, kind)
    /\ classified.some =>
          classified.v =
             [result |-> None,
              error |-> Some([code |-> -32002,
                              message |-> <<"I", "n", "v", "a", "l", "i", "d", " ",
                                            "p", "a", "r", "a", "m", "e", "t", "e",
                                            "r", "s", ":", " ">> \o validation.v.e,
                              data |-> None]),
              jsonrpc |-> <<"2", ".", "0">>]

\* C28 witness: the failure of a pattern, whose message holds no keyword but
\* "required", has been classified
C28_Witness ==
    /\ classified.some
    /\ validation.v.e = MSG_Parameter \o STR_tz \o MSG_DoesNotMatch

\* additionalProperties is false and the arguments hold a key that is not
\* among the properties
HasUnexpectedKey ==
    /\ SchemaMember(STR_additionalProperties) = Some(JBool(FALSE))
    /\ UndeclaredKeys # {}

\* the value of some key of the arguments fails the sub-schema declared for
\* the key
HasPropertyViolation ==
    \E k \in ArgKeys(given_args) \cap DeclaredProperties :
        ~validate_value(k, given_args.v.o[k], SchemaMember(STR_properties).v.o[k]).ok

\* the outcome is the same in whatever order the keys are visited
SameOutcomeInEveryOrder ==
    \A keys \in KeyOrders(ArgKeys(given_args)) :
        validate_tool_args(given_schema, given_args, keys).ok = validation.v.ok

\* C29: for an arguments object the outcome of validation, success or
\* failure, is the same in every order of visiting its keys, and it is
\* success exactly when there is no unexpected key, no missing required name
\* and no value that fails the sub-schema of its key
C29_OutcomeIndependentOfOrder ==
    (validation.some /\ ArgsAreObject) =>
        /\ SameOutcomeInEveryOrder
        /\ Succeeded <=>
              (~HasUnexpectedKey /\ MissingFields = {} /\ ~HasPropertyViolation)

\* C29 where the schema declares its properties, and the independence of the
\* order for every schema
C29_OutcomeWhereDeclared ==
    (validation.some /\ ArgsAreObject) =>
        /\ SameOutcomeInEveryOrder
        /\ (SchemaMember(STR_properties).some
              /\ SchemaMember(STR_properties).v.t = "object") =>
                 (Succeeded <=>
                     (~HasUnexpectedKey /\ MissingFields = {} /\ ~HasPropertyViolation))

\* the value meets what the sub-schema says of values of its kind: the
\* declared type, the lengths and the prefix for a string, the bounds for a
\* number, the count for an array
Conforms(value, sub) ==
    LET Says(key) == key \in DOMAIN sub.o
    IN  /\ Says(STR_type) => Accepts(sub.o[STR_type].s, value)
        /\ value.t = "string" =>
              /\ Says(STR_minLength) => Encoded(value.s) >= sub.o[STR_minLength].n
              /\ Says(STR_maxLength) => Encoded(value.s) <= sub.o[STR_maxLength].n
              /\ Says(STR_pattern) =>
                    Begins(value.s, SubSeq(sub.o[STR_pattern].s, 2,
                                           Len(sub.o[STR_pattern].s) - 1))
        /\ value.t = "int" =>
              /\ Says(STR_minimum) => value.n >= sub.o[STR_minimum].n
              /\ Says(STR_maximum) => value.n <= sub.o[STR_maximum].n
        /\ value.t = "array" =>
              (Says(STR_maxItems) => Len(value.a) <= sub.o[STR_maxItems].n)

\* C30: with no unexpected key and no required name missing, validation
\* succeeds exactly when the value of every key that is among the properties
\* meets what its sub-schema says of values of its kind, whether or not the
\* sub-schema declares a type; what a sub-schema says of other kinds, the
\* values of keys that are not among the properties, and the values held
\* inside an array or an object make no difference
C30_ConstraintsFollowTheKind ==
    (validation.some /\ ArgsAreObject /\ ~UnexpectedKeyCheckFails /\ MissingFields = {}) =>
        (Succeeded <=>
            \A k \in ArgKeys(given_args) \cap DeclaredProperties :
                Conforms(given_args.v.o[k], SchemaMember(STR_properties).v.o[k]))

\* C30 witness: under sub-schemas that declare no type, tz holds a string
\* shorter than its minLength and has been reported, while n holds an array,
\* to which its minimum does not apply, with a number below that minimum
\* inside
C30_Witness ==
    /\ validation.some
    /\ given_args = Some(JObj((STR_n :> JArr(<<JInt(0)>>)) @@ (STR_tz :> JStr(STR_tz))))
    /\ SchemaMember(STR_properties).some
    /\ SchemaMember(STR_properties).v.t = "object"
    /\ DeclaredProperties = {STR_n, STR_tz, STR_test_param}
    /\ SchemaMember(STR_required) = None
    /\ Failed(MSG_Parameter \o STR_tz \o MSG_MustBeAtLeast \o <<"3">> \o MSG_CharactersLong)

====
